---- MODULE Spec2Model ----
(***************************************************************************)
(* digital-switchboard: the lead-intake webhook, the call dispatcher and   *)
(* the provider status webhooks, as a state machine over the Lead, Call    *)
(* and AuditLog tables.  Every request is a process; each of its steps is  *)
(* the code between two awaited store or provider operations, so that      *)
(* requests interleave exactly where the Node event loop lets them.        *)
(***************************************************************************)
EXTENDS Integers, Sequences, FiniteSets, Bags, TLC

(***************************************************************************)
(* Bounds of the model.                                                    *)
(***************************************************************************)
MaxRequests == 2
MaxTicks == 1
MaxEdits == 1
TickMs == 1800000

(***************************************************************************)
(* Program constants.                                                      *)
(***************************************************************************)
DedupeWindowMinutes == 30
ImmediateWindowSeconds == 300

NULL == "null"
NoId == 0
NoTime == -1
InitialNow == 24 * 3600000

(***************************************************************************)
(* The clients table with its routing_configs (written by the admin        *)
(* surface only, read by the webhook) and process.env: which webhook       *)
(* secrets are configured, which provider credentials are present, and     *)
(* whether BASE_URL is an https:// domain, and how the runtime's           *)
(* toLocaleTimeString('en-US', { hour12: false }) numbers the hour after   *)
(* midnight: 00 (hour cycle h23) or 24 (h24).  Times of day are            *)
(* <<hour, minute>>.  A deployment is one choice of both.                  *)
(***************************************************************************)
UnknownClient == "tx"

BlandTenant ==
  [status |-> "ACTIVE", tzOffsetMinutes |-> 0,
   quietHoursStart |-> <<0, 20>>, quietHoursEnd |-> <<6, 0>>,
   routingConfigs |-> << [active |-> FALSE, provider |-> "VAPI", transferNumber |-> NULL],
                         [active |-> TRUE, provider |-> "BLAND", transferNumber |-> "p1"] >>]
VapiTenant ==
  [status |-> "ACTIVE", tzOffsetMinutes |-> 0,
   quietHoursStart |-> <<8, 0>>, quietHoursEnd |-> <<8, 0>>,
   routingConfigs |-> << [active |-> TRUE, provider |-> "VAPI", transferNumber |-> NULL] >>]
InactiveTenant ==
  [status |-> "INACTIVE", tzOffsetMinutes |-> 0,
   quietHoursStart |-> <<20, 0>>, quietHoursEnd |-> <<8, 0>>,
   routingConfigs |-> << [active |-> TRUE, provider |-> "BLAND", transferNumber |-> NULL] >>]
UnroutedTenant ==
  [status |-> "ACTIVE", tzOffsetMinutes |-> 0,
   quietHoursStart |-> <<20, 0>>, quietHoursEnd |-> <<8, 0>>,
   routingConfigs |-> << [active |-> FALSE, provider |-> "BLAND", transferNumber |-> NULL] >>]
OtherProviderTenant ==
  [status |-> "ACTIVE", tzOffsetMinutes |-> 0,
   quietHoursStart |-> <<8, 0>>, quietHoursEnd |-> <<8, 0>>,
   routingConfigs |-> << [active |-> TRUE, provider |-> "TWILIO", transferNumber |-> NULL] >>]

\* What the upstream CRM workflow puts in its payloads: contact ids or
\* none, and which kind of submission timestamp.  The store is empty, or
\* holds what an earlier run of the server left in it: one lead of t1 that
\* was dispatched and is being called.
Deployments ==
  { [env |-> [secrets |-> FALSE, blandKey |-> "set", vapiKey |-> "set", baseUrl |-> "https", hourCycle |-> "h23", auditUp |-> TRUE],
     clients |-> [c \in {"t1", "t2"} |-> IF c = "t1" THEN BlandTenant ELSE VapiTenant],
     crm |-> [contactIds |-> {"c1"}, timestamps |-> {"none"}], store |-> "empty"],
    [env |-> [secrets |-> FALSE, blandKey |-> "set", vapiKey |-> "set", baseUrl |-> "https", hourCycle |-> "h23", auditUp |-> TRUE],
     clients |-> [c \in {"t1"} |-> BlandTenant],
     crm |-> [contactIds |-> {"c1"}, timestamps |-> {"none"}], store |-> "dispatched"],
    [env |-> [secrets |-> FALSE, blandKey |-> "set", vapiKey |-> "set", baseUrl |-> "https", hourCycle |-> "h23", auditUp |-> TRUE],
     clients |-> [c \in {"t1"} |-> BlandTenant],
     crm |-> [contactIds |-> {NULL}, timestamps |-> {"fresh", "stale"}], store |-> "empty"],
    [env |-> [secrets |-> FALSE, blandKey |-> "set", vapiKey |-> "set", baseUrl |-> "https",
              hourCycle |-> "h24", auditUp |-> TRUE],
     clients |-> [c \in {"t1"} |-> BlandTenant],
     crm |-> [contactIds |-> {NULL}, timestamps |-> {"fresh", "stale"}], store |-> "empty"],
    [env |-> [secrets |-> TRUE, blandKey |-> "missing", vapiKey |-> "set", baseUrl |-> "https", hourCycle |-> "h23", auditUp |-> TRUE],
     clients |-> [c \in {"t1", "t3"} |-> IF c = "t1" THEN BlandTenant ELSE InactiveTenant],
     crm |-> [contactIds |-> {"c1"}, timestamps |-> {"none"}], store |-> "empty"],
    [env |-> [secrets |-> FALSE, blandKey |-> "set", vapiKey |-> "set", baseUrl |-> "http", hourCycle |-> "h23", auditUp |-> TRUE],
     clients |-> [c \in {"t2", "t4", "t5"} |->
                    IF c = "t2" THEN VapiTenant
                    ELSE IF c = "t4" THEN UnroutedTenant ELSE OtherProviderTenant],
     crm |-> [contactIds |-> {NULL}, timestamps |-> {"none"}], store |-> "empty"],
    [env |-> [secrets |-> FALSE, blandKey |-> "placeholder", vapiKey |-> "set", baseUrl |-> "https",
              hourCycle |-> "h23", auditUp |-> TRUE],
     clients |-> [c \in {"t1"} |-> BlandTenant],
     crm |-> [contactIds |-> {"c1"}, timestamps |-> {"none"}], store |-> "empty"] }

VARIABLES env, clients, crm, now, ticks, leads, calls, audit, providerRequests, req, last,
          overlapped, verdict
vars == <<env, clients, crm, now, ticks, leads, calls, audit, providerRequests, req, last,
          overlapped, verdict>>

ClientIds == DOMAIN clients

Requests == 1..MaxRequests

(***************************************************************************)
(* Pure helpers of lib/utils and routes/webhook.                           *)
(***************************************************************************)

\* verifyStaticSecret: admit when no secret is configured, else on equality.
verifyStaticSecretStrict(configured, headerMatches) == headerMatches
verifyStaticSecret(configured, headerMatches) ==
  IF ~configured THEN TRUE ELSE headerMatches

\* Whether the x-webhook-secret header equals the configured secret; with
\* none configured the header is not read.
HeaderChoices == IF env.secrets THEN BOOLEAN ELSE {FALSE}

\* normalizePhone: a raw phone is <<spelling, number>>; every valid spelling
\* of a number formats to the same E.164 string, an unparseable one to NULL.
NoPhone == <<"absent", "">>
RawPhones == { <<"national", "p1">>, <<"e164", "p1">>, <<"text", "bad">> }
normalizePhone(raw) ==
  IF raw[2] = "bad" THEN NULL ELSE raw[2]

\* "HH:MM".split(':').map(Number); h * 60 + m
MinutesOf(hm) == hm[1] * 60 + hm[2]

\* now.toLocaleTimeString('en-US', { timeZone, hour12: false, hour: '2-digit',
\* minute: '2-digit' }) as <<hour, minute>>: under hour cycle h24 the hour
\* after midnight is written 24.
toLocaleTimeString(t, tzOffsetMinutes, hourCycle) ==
  LET local == ((t \div 60000) + tzOffsetMinutes) % 1440
      hour == local \div 60
  IN  << IF hour = 0 /\ hourCycle = "h24" THEN 24 ELSE hour, local % 60 >>

QuietBetween(currentMinutes, startMinutes, endMinutes) ==
  IF startMinutes <= endMinutes
    THEN currentMinutes >= startMinutes /\ currentMinutes < endMinutes
    ELSE currentMinutes >= startMinutes \/ currentMinutes < endMinutes

isWithinQuietHours(t, tzOffsetMinutes, hourCycle, quietStart, quietEnd) ==
  QuietBetween(MinutesOf(toLocaleTimeString(t, tzOffsetMinutes, hourCycle)),
               MinutesOf(quietStart), MinutesOf(quietEnd))

\* Math.floor(Date.now() / windowMs)
DedupeBucketOnce(t) == 0
DedupeBucket(t) == t \div (DedupeWindowMinutes * 60 * 1000)

\* generateDedupeKey: contact id first, phone otherwise, with the window
\* length and the bucket of the current instant.
generateDedupeKey(contactId, phone, t) ==
  IF contactId # NULL
    THEN <<"contact", contactId, DedupeWindowMinutes, DedupeBucket(t)>>
    ELSE <<"phone", phone, DedupeWindowMinutes, DedupeBucket(t)>>

\* A payload timestamp is no value ("none": missing, null, 0 or ''), a text
\* that Date cannot parse ("text"), or an instant in ms given as an ISO
\* string ("iso") or as an epoch number ("epoch").
NoTimestamp == [kind |-> "none", ms |-> 0]
ageSeconds(timestamp, t) ==
  IF timestamp.kind \notin {"iso", "epoch"}
    THEN [null |-> TRUE, s |-> 0]
    ELSE [null |-> FALSE, s |-> (t - timestamp.ms) \div 1000]

isImmediateAnyAge(timestamp, t) ==
  LET a == ageSeconds(timestamp, t)
  IN  IF a.null THEN TRUE ELSE a.s <= ImmediateWindowSeconds
isImmediate(timestamp, t) ==
  LET a == ageSeconds(timestamp, t)
  IN  IF a.null THEN TRUE ELSE a.s >= 0 /\ a.s <= ImmediateWindowSeconds

\* routingConfigs: { where: { active: true }, take: 1 }
AllRoutingConfigs(c) == clients[c].routingConfigs
ActiveRoutingConfigs(c) == SelectSeq(clients[c].routingConfigs, LAMBDA rc : rc.active)

(***************************************************************************)
(* The store.  Row ids are positions in the table.                         *)
(***************************************************************************)
LeadIds == 1..Len(leads)
CallIds == 1..Len(calls)

\* prisma.lead.findUnique({ clientId_dedupeKey })
FindLeadNone(clientId, dedupeKey) == {}
FindLeadNotFailed(clientId, dedupeKey) ==
  { l \in LeadIds : /\ leads[l].clientId = clientId /\ leads[l].dedupeKey = dedupeKey
                    /\ leads[l].callStatus \notin {"FAILED", "SKIPPED"} }
FindLead(clientId, dedupeKey) ==
  { l \in LeadIds : leads[l].clientId = clientId /\ leads[l].dedupeKey = dedupeKey }

\* UNIQUE ("clientId", "dedupeKey"): an insert that would repeat the pair fails.
LeadInsertUnchecked(clientId, dedupeKey) == TRUE
LeadInsertAllowed(clientId, dedupeKey) == FindLead(clientId, dedupeKey) = {}

\* prisma.call.findUnique({ providerCallId })
FindCallAnyWhenMissing(providerCallId) ==
  IF providerCallId = NoId \/ { c \in CallIds : calls[c].providerCallId = providerCallId } = {}
    THEN CallIds
    ELSE { c \in CallIds : calls[c].providerCallId = providerCallId }
FindCall(providerCallId) ==
  { c \in CallIds : calls[c].providerCallId = providerCallId }

\* "providerCallId" TEXT UNIQUE
ProviderCallIdTaken(callId, providerCallId) == FALSE
ProviderCallIdUnchecked(callId, providerCallId) == TRUE
ProviderCallIdFree(callId, providerCallId) ==
  \A c \in CallIds : c # callId => calls[c].providerCallId # providerCallId

\* prisma.lead.update({ callStatus, skipReason? }); trail is the history of
\* the statuses the row has had.
SetLeadOfTenant(l, status, reason) ==
  [x \in LeadIds |->
     IF leads[x].clientId = leads[l].clientId
       THEN [leads[x] EXCEPT !.callStatus = status,
                             !.skipReason = IF reason = NULL THEN @ ELSE reason,
                             !.trail = IF status = leads[x].callStatus THEN @ ELSE Append(@, status)]
       ELSE leads[x]]
SetLead(l, status, reason) ==
  [leads EXCEPT ![l] = [@ EXCEPT !.callStatus = status,
                                 !.skipReason = IF reason = NULL THEN @ ELSE reason,
                                 !.trail = IF status = leads[l].callStatus THEN @ ELSE Append(@, status)]]

\* createAuditLog: one appended row, kept as its event type and the lead it
\* is about (the client is that lead's).
Audited(a, eventType, leadId) == a (+) SetToBag({<<eventType, leadId>>})

\* prisma.auditLog.create rejects while the audit store is down.
AuditCreateRejects(up) == ~up

\* The promise createAuditLog returns never rejects: its catch takes every
\* error of the write.
createAuditLogRejectsWhenDown(up) == AuditCreateRejects(up)
createAuditLogRejects(up) == FALSE

\* createAuditLog: the row is appended, or the failed write is dropped.
createAuditLog(a, eventType, leadId, up) ==
  IF AuditCreateRejects(up) THEN a ELSE Audited(a, eventType, leadId)

(***************************************************************************)
(* Requests.  A request in flight holds the handler's locals; when it has  *)
(* answered, its slot is cleared and `last` keeps the answered request.    *)
(***************************************************************************)
NoResponse == [status |-> 0, message |-> NULL, leadId |-> NoId, callId |-> NoId, error |-> NULL]
NoResult == [success |-> FALSE, callId |-> NoId, error |-> NULL]
NoRouting == [active |-> FALSE, provider |-> NULL, transferNumber |-> NULL]

IdleRequest ==
  [kind |-> "none", pc |-> "idle", raced |-> FALSE, admitted |-> FALSE,
   clientId |-> NULL, contactId |-> NULL, phone |-> NULL, timestamp |-> NoTimestamp,
   dedupeKey |-> <<>>, keyTime |-> NoTime, leadsAtArrival |-> 0, routing |-> NoRouting,
   leadId |-> NoId, created |-> NoId, insertRejected |-> FALSE, callId |-> NoId,
   providerCallId |-> NoId, callStatus |-> NULL, outcome |-> NULL,
   found |-> NoId, sawTerminal |-> FALSE, signal |-> NULL, threw |-> FALSE,
   headerMatches |-> FALSE, tenantOpen |-> FALSE, issued |-> FALSE,
   result |-> NoResult, response |-> NoResponse]

DoneRequest == [IdleRequest EXCEPT !.pc = "done"]

Done(r) == req[r].pc = "done"
Started(r) == req[r].pc # "idle"
InFlight(r) == Started(r) /\ ~Done(r)

\* Requests arrive in the order of their ids.
CanArrive(r) == req[r].pc = "idle" /\ \A q \in Requests : q < r => Started(q)

\* The requests that overlap in time with another one are marked raced,
\* and overlapped records that some two requests of the run have.
Arrive(r, rec) ==
  [q \in Requests |->
     IF q = r THEN [rec EXCEPT !.raced = \E x \in Requests : InFlight(x)]
     ELSE IF InFlight(q) THEN [req[q] EXCEPT !.raced = TRUE]
     ELSE req[q]]

Answered(rec, response) == [rec EXCEPT !.pc = "done", !.response = response]

Reply(status, message) == [NoResponse EXCEPT !.status = status, !.message = message]

\* await createAuditLog(...): the caller goes on unless the promise rejects,
\* which throws and ends in the handler's catch.
Awaited(up, rec) ==
  IF createAuditLogRejects(up)
    THEN Answered([rec EXCEPT !.threw = TRUE], Reply(500, "Internal server error"))
    ELSE rec
AwaitedIn(up, r, requests) == [requests EXCEPT ![r] = Awaited(up, requests[r])]

\* The rows a served lead webhook of t1 (contact c1, phone p1, provider
\* call id 1) leaves behind.
DispatchedLeads ==
  << [clientId |-> "t1", dedupeKey |-> generateDedupeKey("c1", "p1", InitialNow),
      phone |-> "p1", callStatus |-> "CALLING", skipReason |-> NULL,
      trail |-> <<"NEW", "QUEUED", "CALLING">>, contactId |-> "c1", keyTime |-> InitialNow,
      stamp |-> NoTimestamp] >>
DispatchedCalls ==
  << [clientId |-> "t1", leadId |-> 1, provider |-> "BLAND", providerCallId |-> 1,
      status |-> "IN_PROGRESS", outcome |-> NULL, startedAt |-> InitialNow,
      endedAt |-> NoTime, updates |-> 1, trail |-> <<"CREATED", "IN_PROGRESS">>] >>
DispatchedAudit ==
  SetToBag({<<"LEAD_CREATED", 1>>}) (+) SetToBag({<<"CALL_INITIATED", 1>>})
    (+) SetToBag({<<"CALL_INITIATED", 1>>})
DispatchedProviderRequests ==
  << [provider |-> "BLAND", leadId |-> 1, phone |-> "p1", transfer |-> "p1", answeredId |-> 1] >>

\* What a direct call of a helper returned; none in a run of the server.
NoVerdict == [asked |-> FALSE, result |-> FALSE]

Init ==
  /\ \E d \in Deployments :
       /\ env = d.env /\ clients = d.clients /\ crm = d.crm
       /\ leads = IF d.store = "empty" THEN <<>> ELSE DispatchedLeads
       /\ calls = IF d.store = "empty" THEN <<>> ELSE DispatchedCalls
       /\ audit = IF d.store = "empty" THEN EmptyBag ELSE DispatchedAudit
       /\ providerRequests = IF d.store = "empty" THEN <<>> ELSE DispatchedProviderRequests
  /\ now = InitialNow
  /\ ticks = 0
  /\ req = [r \in Requests |-> IdleRequest]
  /\ last = IdleRequest
  /\ overlapped = FALSE
  /\ verdict = NoVerdict

\* Time passes.  A tick is half an hour and a request is served in far less,
\* so ticks fall between requests.
Tick ==
  /\ ticks < MaxTicks
  /\ \A r \in Requests : ~InFlight(r)
  /\ ticks' = ticks + 1
  /\ now' = now + TickMs
  /\ UNCHANGED <<env, clients, crm, verdict, overlapped, leads, calls, audit, providerRequests, req, last>>

(***************************************************************************)
(* POST /webhook/gohighlevel/:clientId                                     *)
(***************************************************************************)
Timestamp(kind, t) ==
  CASE kind = "fresh" -> [kind |-> "iso", ms |-> t - 1000]
    [] kind = "stale" -> [kind |-> "iso", ms |-> t - (ImmediateWindowSeconds + 1) * 1000]
    [] OTHER -> NoTimestamp

\* What the request answers before it touches the Lead table: the secret
\* check, the client lookup and the gates, in the handler's order.
GhlGateReply(clientId, rawPhone, headerMatches, storeFails) ==
  IF ~verifyStaticSecret(env.secrets, headerMatches)
    THEN <<Reply(403, "Forbidden"), "WEBHOOK_FORBIDDEN">>
  ELSE IF storeFails
    THEN <<Reply(500, "Internal server error"), "WEBHOOK_ERROR">>
  ELSE IF clientId \notin ClientIds
    THEN <<Reply(404, "Client not found"), "WEBHOOK_ERROR">>
  ELSE IF clients[clientId].status # "ACTIVE"
    THEN <<Reply(200, "Client inactive - skipped"), "CALL_SKIPPED">>
  ELSE IF ActiveRoutingConfigs(clientId) = <<>>
    THEN <<Reply(200, "No routing config - skipped"), "CALL_SKIPPED">>
  ELSE IF rawPhone = NoPhone
    THEN <<Reply(400, "Phone number required"), "WEBHOOK_ERROR">>
  ELSE IF normalizePhone(rawPhone) = NULL
    THEN <<Reply(400, "Invalid phone number"), "WEBHOOK_ERROR">>
  ELSE <<NoResponse, NULL>>

\* From the request's arrival to the answer of its lead query: the gates,
\* the dedupe key, prisma.lead.findUnique and the duplicate answer.
GhlReceive(r, up) ==
  /\ CanArrive(r)
  /\ \E clientId \in ClientIds \cup {UnknownClient}, contactId \in crm.contactIds,
        rawPhone \in RawPhones \cup {NoPhone}, timestampKind \in crm.timestamps,
        headerMatches \in HeaderChoices, storeFails \in BOOLEAN :
       LET rec == [IdleRequest EXCEPT !.kind = "ghl", !.headerMatches = headerMatches,
                     !.admitted = verifyStaticSecret(env.secrets, headerMatches)]
           gate == GhlGateReply(clientId, rawPhone, headerMatches, storeFails)
           phone == normalizePhone(rawPhone)
           dedupeKey == generateDedupeKey(contactId, phone, now)
           existing == FindLead(clientId, dedupeKey)
           sent == [rec EXCEPT !.clientId = clientId, !.contactId = contactId,
                               !.phone = phone, !.dedupeKey = dedupeKey,
                               !.keyTime = now, !.leadsAtArrival = Len(leads)]
       IN  IF gate[1] # NoResponse
             THEN /\ audit' = createAuditLog(audit, gate[2], NoId, up)
                  /\ req' = [req EXCEPT ![r] = DoneRequest]
                  /\ last' = Awaited(up, Answered([rec EXCEPT !.threw = (gate[1].status = 500)], gate[1]))
           ELSE IF existing # {}
             THEN LET l == CHOOSE x \in existing : TRUE
                  IN  /\ audit' = createAuditLog(audit, "WEBHOOK_DUPLICATE", l, up)
                      /\ req' = [req EXCEPT ![r] = DoneRequest]
                      /\ last' = Awaited(up, Answered(sent,
                                   [Reply(200, "Duplicate ignored") EXCEPT !.leadId = l]))
           ELSE /\ audit' = audit
                /\ req' = Arrive(r,
                     [sent EXCEPT !.pc = "createLead", !.timestamp = Timestamp(timestampKind, now),
                                  !.routing = Head(ActiveRoutingConfigs(clientId))])
                /\ last' = last
  /\ overlapped' = (overlapped \/ (req'[r].pc # "done" /\ \E x \in Requests : InFlight(x)))
  /\ UNCHANGED <<env, clients, crm, verdict, now, ticks, leads, calls, providerRequests>>

\* prisma.lead.create; a rejected insert throws into the handler's catch.
GhlCreateLead(r, up) ==
  /\ req[r].pc = "createLead"
  /\ IF LeadInsertAllowed(req[r].clientId, req[r].dedupeKey)
       THEN /\ leads' = Append(leads,
                  [clientId |-> req[r].clientId, dedupeKey |-> req[r].dedupeKey,
                   phone |-> req[r].phone, callStatus |-> "NEW",
                   skipReason |-> NULL, trail |-> <<"NEW">>,
                   contactId |-> req[r].contactId, keyTime |-> req[r].keyTime,
                   stamp |-> req[r].timestamp])
            /\ audit' = createAuditLog(audit, "LEAD_CREATED", Len(leads) + 1, up)
            /\ req' = AwaitedIn(up, r, [req EXCEPT ![r].pc = "quietGate", ![r].leadId = Len(leads) + 1,
                                  ![r].created = Len(leads) + 1,
                                  ![r].dedupeKey = <<>>, ![r].keyTime = NoTime,
                                  ![r].contactId = NULL, ![r].leadsAtArrival = 0])
            /\ last' = last
       ELSE /\ leads' = leads
            /\ audit' = createAuditLog(audit, "WEBHOOK_ERROR", NoId, up)
            /\ req' = [req EXCEPT ![r] = DoneRequest]
            /\ last' = Awaited(up, Answered([req[r] EXCEPT !.insertRejected = TRUE, !.threw = TRUE],
                                Reply(500, "Internal server error")))
  /\ UNCHANGED <<env, clients, crm, verdict, overlapped, now, ticks, calls, providerRequests>>

\* The quiet-hours policy: SKIPPED for a non-immediate lead inside quiet
\* hours, QUEUED otherwise.
GhlQuietGate(r, up) ==
  /\ req[r].pc = "quietGate"
  /\ LET c == clients[req[r].clientId]
         l == req[r].leadId
     IN  IF /\ ~isImmediate(req[r].timestamp, now)
            /\ isWithinQuietHours(now, c.tzOffsetMinutes, env.hourCycle,
                                  c.quietHoursStart, c.quietHoursEnd)
           THEN /\ leads' = SetLead(l, "SKIPPED", "Quiet hours")
                /\ audit' = createAuditLog(audit, "CALL_SKIPPED", l, up)
                /\ req' = [req EXCEPT ![r] = DoneRequest]
                /\ last' = Awaited(up, Answered(req[r],
                             [Reply(200, "Skipped (quiet hours)") EXCEPT !.leadId = l]))
           ELSE /\ leads' = SetLead(l, "QUEUED", NULL)
                /\ audit' = audit
                /\ req' = [req EXCEPT ![r].pc = "createCall", ![r].timestamp = NoTimestamp]
                /\ last' = last
  /\ UNCHANGED <<env, clients, crm, verdict, overlapped, now, ticks, calls, providerRequests>>

(***************************************************************************)
(* createCall (providers/index, providers/bland, providers/vapi)           *)
(***************************************************************************)
Failure(error) == [success |-> FALSE, callId |-> NoId, error |-> error]

\* The configuration an adapter refuses to dispatch with.
ConfigError(provider) ==
  IF provider = "BLAND" /\ env.blandKey = "missing" THEN "BLAND_API_KEY not configured"
  ELSE IF provider = "VAPI" /\ env.vapiKey = "missing" THEN "VAPI_API_KEY not configured"
  ELSE IF env.baseUrl # "https" THEN "BASE_URL must be set"
  ELSE NULL

\* prisma.call.update of one row
SetCallStamped(c, status, providerCallId, outcome, startedAt, endedAt) ==
  [calls EXCEPT ![c] = [@ EXCEPT !.status = status, !.providerCallId = providerCallId,
                                 !.outcome = outcome, !.startedAt = startedAt,
                                 !.endedAt = now, !.updates = @ + 1,
                                 !.trail = IF status = calls[c].status THEN @ ELSE Append(@, status)]]
SetCall(c, status, providerCallId, outcome, startedAt, endedAt) ==
  [calls EXCEPT ![c] = [@ EXCEPT !.status = status, !.providerCallId = providerCallId,
                                 !.outcome = outcome, !.startedAt = startedAt,
                                 !.endedAt = endedAt, !.updates = @ + 1,
                                 !.trail = IF status = calls[c].status THEN @ ELSE Append(@, status)]]

\* The row prisma.call.create inserts before the provider is asked.
NewCallInProgress(clientId, leadId, provider) ==
  [clientId |-> clientId, leadId |-> leadId,
   provider |-> provider, providerCallId |-> NoId, status |-> "IN_PROGRESS",
   outcome |-> NULL, startedAt |-> NoTime, endedAt |-> NoTime,
   updates |-> 0, trail |-> <<"IN_PROGRESS">>]
NewCall(clientId, leadId, provider) ==
  [clientId |-> clientId, leadId |-> leadId,
   provider |-> provider, providerCallId |-> NoId, status |-> "CREATED",
   outcome |-> NULL, startedAt |-> NoTime, endedAt |-> NoTime,
   updates |-> 0, trail |-> <<"CREATED">>]

\* A provider switch that hands every other tag to the Bland adapter.
CreateCallStartDefaultsToBland(r, up) ==
  /\ req[r].pc = "createCall"
  /\ calls' = Append(calls, NewCall(req[r].clientId, req[r].leadId, "BLAND"))
  /\ audit' = audit
  /\ req' = [req EXCEPT ![r].pc = "fetch", ![r].callId = Len(calls) + 1]
  /\ UNCHANGED <<env, clients, crm, verdict, overlapped, now, ticks, leads, providerRequests, last>>

\* The provider switch, the configuration checks and prisma.call.create.
CreateCallStart(r, up) ==
  /\ req[r].pc = "createCall"
  /\ LET provider == IF req[r].routing.provider = NULL THEN "BLAND" ELSE req[r].routing.provider
     IN  IF provider \notin {"BLAND", "VAPI"}
           THEN /\ calls' = calls
                /\ audit' = audit
                /\ req' = [req EXCEPT ![r].pc = "ghlFailed",
                                      ![r].result = Failure("Unknown provider")]
         ELSE IF ConfigError(provider) # NULL
           THEN /\ calls' = calls
                /\ audit' = createAuditLog(audit, "CALL_FAILED", req[r].leadId, up)
                /\ req' = AwaitedIn(up, r, [req EXCEPT ![r].pc = "ghlFailed",
                                      ![r].result = Failure(ConfigError(provider))])
         ELSE /\ calls' = Append(calls, NewCall(req[r].clientId, req[r].leadId, provider))
              /\ audit' = audit
              /\ req' = [req EXCEPT ![r].pc = "fetch", ![r].callId = Len(calls) + 1]
  /\ UNCHANGED <<env, clients, crm, verdict, overlapped, now, ticks, leads, providerRequests, last>>

\* The identifiers a provider may answer with: a new one, or one it has given before.
IssuedIds == { providerRequests[i].answeredId : i \in 1..Len(providerRequests) } \ {NoId}
FreshId == Len(providerRequests) + 1

\* fetch(provider API) and the parse of its answer.
CreateCallFetch(r, up) ==
  /\ req[r].pc = "fetch"
  /\ \E answer \in {"accepted", "okWithoutId", "rejected", "network"},
        id \in IssuedIds \cup {FreshId} :
       LET sentRequest == [provider |-> calls[req[r].callId].provider, leadId |-> req[r].leadId,
                           phone |-> req[r].phone,
                           transfer |-> req[r].routing.transferNumber,
                           answeredId |-> IF answer = "accepted" THEN id ELSE NoId]
       IN  /\ answer # "accepted" => id = FreshId
           /\ providerRequests' = Append(providerRequests, sentRequest)
           /\ CASE answer = "accepted" ->
                     /\ audit' = audit
                     /\ req' = [req EXCEPT ![r].pc = "storeAccepted", ![r].providerCallId = id]
                [] answer = "okWithoutId" ->
                     /\ audit' = audit
                     /\ req' = [req EXCEPT ![r].pc = "storeFailed",
                                  ![r].result = Failure("Call creation failed (HTTP 200)")]
                [] answer = "rejected" ->
                     /\ audit' = audit
                     /\ req' = [req EXCEPT ![r].pc = "storeFailed",
                                  ![r].result = Failure("provider error")]
                [] answer = "network" ->
                     /\ audit' = createAuditLog(audit, "CALL_ERROR", req[r].leadId, up)
                     /\ req' = AwaitedIn(up, r, [req EXCEPT ![r].pc = "ghlFailed",
                                  ![r].result = Failure("fetch failed")])
  /\ UNCHANGED <<env, clients, crm, verdict, overlapped, now, ticks, leads, calls, last>>

\* Accepted: prisma.call.update with the provider call id; the unique index
\* on providerCallId can reject it, which throws into the adapter's catch.
CreateCallStoreAccepted(r, up) ==
  /\ req[r].pc = "storeAccepted"
  /\ IF ProviderCallIdFree(req[r].callId, req[r].providerCallId)
       THEN /\ calls' = SetCall(req[r].callId, "IN_PROGRESS", req[r].providerCallId,
                                calls[req[r].callId].outcome, now, calls[req[r].callId].endedAt)
            /\ audit' = audit
            /\ req' = [req EXCEPT ![r].pc = "leadCalling"]
       ELSE /\ calls' = calls
            /\ audit' = createAuditLog(audit, "CALL_ERROR", req[r].leadId, up)
            /\ req' = AwaitedIn(up, r, [req EXCEPT ![r].pc = "ghlFailed", ![r].providerCallId = NoId,
                                  ![r].result = Failure("Unique constraint failed")])
  /\ UNCHANGED <<env, clients, crm, verdict, overlapped, now, ticks, leads, providerRequests, last>>

\* Accepted: prisma.lead.update to CALLING, the audit row and the result.
CreateCallLeadCalling(r, up) ==
  /\ req[r].pc = "leadCalling"
  /\ leads' = SetLead(req[r].leadId, "CALLING", NULL)
  /\ audit' = createAuditLog(audit, "CALL_INITIATED", req[r].leadId, up)
  /\ req' = AwaitedIn(up, r, [req EXCEPT ![r].pc = "ghlCalling",
                        ![r].result = [success |-> TRUE, callId |-> req[r].providerCallId,
                                       error |-> NULL],
                        ![r].providerCallId = NoId])
  /\ UNCHANGED <<env, clients, crm, verdict, overlapped, now, ticks, calls, providerRequests, last>>

\* Not accepted: prisma.call.update to FAILED with the error as outcome,
\* prisma.lead.update to FAILED with it as skip reason, the audit row and
\* the result.  No other request reads either row between the two writes.
CreateCallFailed(r, up) ==
  /\ req[r].pc = "storeFailed"
  /\ calls' = SetCall(req[r].callId, "FAILED", calls[req[r].callId].providerCallId,
                      req[r].result.error, calls[req[r].callId].startedAt,
                      calls[req[r].callId].endedAt)
  /\ leads' = SetLead(req[r].leadId, "FAILED", req[r].result.error)
  /\ audit' = createAuditLog(audit, "CALL_FAILED", req[r].leadId, up)
  /\ req' = AwaitedIn(up, r, [req EXCEPT ![r].pc = "ghlFailed"])
  /\ UNCHANGED <<env, clients, crm, verdict, overlapped, now, ticks, providerRequests, last>>

\* Back in the webhook, callResult.success: CALLING, audit, 200 with the call id.
GhlLeadCalling(r, up) ==
  /\ req[r].pc = "ghlCalling"
  /\ leads' = SetLead(req[r].leadId, "CALLING", NULL)
  /\ audit' = createAuditLog(audit, "CALL_INITIATED", req[r].leadId, up)
  /\ req' = [req EXCEPT ![r] = DoneRequest]
  /\ last' = Awaited(up, Answered(req[r],
               [Reply(200, "Lead received and call initiated")
                  EXCEPT !.leadId = req[r].leadId, !.callId = req[r].result.callId]))
  /\ UNCHANGED <<env, clients, crm, verdict, overlapped, now, ticks, calls, providerRequests>>

\* Back in the webhook, no success: FAILED with the error, audit, 200 with the error.
GhlLeadFailedRetries(r, up) ==
  /\ req[r].pc = "ghlFailed"
  /\ leads' = SetLead(req[r].leadId, "QUEUED", NULL)
  /\ audit' = createAuditLog(audit, "CALL_FAILED", req[r].leadId, up)
  /\ req' = [req EXCEPT ![r].pc = "createCall"]
  /\ last' = last
  /\ UNCHANGED <<env, clients, crm, verdict, overlapped, now, ticks, calls, providerRequests>>
GhlLeadFailedLeavesLead(r, up) ==
  /\ req[r].pc = "ghlFailed"
  /\ leads' = leads
  /\ audit' = createAuditLog(audit, "CALL_FAILED", req[r].leadId, up)
  /\ req' = [req EXCEPT ![r] = DoneRequest]
  /\ last' = Awaited(up, Answered(req[r],
               [Reply(200, "Lead received but call failed")
                  EXCEPT !.leadId = req[r].leadId, !.error = req[r].result.error]))
  /\ UNCHANGED <<env, clients, crm, verdict, overlapped, now, ticks, calls, providerRequests>>
GhlLeadFailed(r, up) ==
  /\ req[r].pc = "ghlFailed"
  /\ leads' = SetLead(req[r].leadId, "FAILED", req[r].result.error)
  /\ audit' = createAuditLog(audit, "CALL_FAILED", req[r].leadId, up)
  /\ req' = [req EXCEPT ![r] = DoneRequest]
  /\ last' = Awaited(up, Answered(req[r],
               [Reply(200, "Lead received but call failed")
                  EXCEPT !.leadId = req[r].leadId, !.error = req[r].result.error]))
  /\ UNCHANGED <<env, clients, crm, verdict, overlapped, now, ticks, calls, providerRequests>>

GhlNext(r) ==
  \/ GhlReceive(r, env.auditUp) \/ GhlCreateLead(r, env.auditUp) \/ GhlQuietGate(r, env.auditUp)
  \/ CreateCallStart(r, env.auditUp) \/ CreateCallFetch(r, env.auditUp)
  \/ CreateCallStoreAccepted(r, env.auditUp) \/ CreateCallLeadCalling(r, env.auditUp)
  \/ CreateCallFailed(r, env.auditUp)
  \/ GhlLeadCalling(r, env.auditUp) \/ GhlLeadFailed(r, env.auditUp)

(***************************************************************************)
(* POST /webhook/bland and POST /webhook/vapi                              *)
(***************************************************************************)
\* String(status).toLowerCase()
ToLower(status) ==
  CASE status = "Completed" -> "completed"
    [] status = "FAILED" -> "failed"
    [] OTHER -> status

\* Bland: payload.call_id || payload.callId, status, completed, error, outcome.
BlandPayloads(ids) ==
  [call_id : ids, status : {"Completed", "FAILED", "ringing"},
   completed : BOOLEAN, error : BOOLEAN, outcome : {NULL, "answered"}]

\* Vapi: payload.call.id || payload.id, message.type, message.status, endedReason.
VapiPayloads(ids) ==
  [id : ids, type : {"end-of-call-report", "status-update", "transcript"},
   status : {"ended", "failed", "in-progress"}, outcome : {NULL, "answered"}]

IsTerminalOnlyCompleted(status) == status = "COMPLETED"
IsTerminalNever(status) == FALSE
IsTerminal(status) == status = "COMPLETED" \/ status = "FAILED"

blandCallStatusIgnoresError(payload) ==
  IF ToLower(payload.status) = "completed" \/ payload.completed THEN "COMPLETED"
  ELSE IF ToLower(payload.status) = "failed" THEN "FAILED"
  ELSE "IN_PROGRESS"
blandCallStatus(payload) ==
  IF ToLower(payload.status) = "completed" \/ payload.completed THEN "COMPLETED"
  ELSE IF ToLower(payload.status) = "failed" \/ payload.error THEN "FAILED"
  ELSE "IN_PROGRESS"

vapiCallStatus(payload) ==
  IF payload.type = "end-of-call-report" THEN "COMPLETED"
  ELSE IF payload.type = "status-update" /\ payload.status = "ended" THEN "COMPLETED"
  ELSE IF payload.status = "failed" THEN "FAILED"
  ELSE "IN_PROGRESS"

\* What the payload signals explicitly: that the call completed (Bland:
\* status completed or the completed flag; Vapi: the end-of-call report or a
\* status update "ended"), else that it failed (status failed, or Bland's
\* error field), else neither.
BlandSignal(payload) ==
  IF payload.completed \/ payload.status = "Completed" THEN "completed"
  ELSE IF payload.error \/ payload.status = "FAILED" THEN "failed"
  ELSE "none"
VapiSignal(payload) ==
  IF payload.type = "end-of-call-report" \/ (payload.type = "status-update" /\ payload.status = "ended")
    THEN "completed"
  ELSE IF payload.status = "failed" THEN "failed"
  ELSE "none"

leadStatusOfRequeues(callStatus) ==
  IF callStatus = "COMPLETED" THEN "COMPLETED"
  ELSE IF callStatus = "FAILED" THEN "FAILED"
  ELSE "QUEUED"
leadStatusOfStaysCalling(callStatus) == "CALLING"
leadStatusOf(callStatus) ==
  IF callStatus = "COMPLETED" THEN "COMPLETED"
  ELSE IF callStatus = "FAILED" THEN "FAILED"
  ELSE "CALLING"

\* From the callback's arrival to the answer of prisma.call.findUnique: the
\* secret check, the call id, the lookup and the idempotency guard.
\* Whether a lead webhook of tenant c would pass the tenant gates now.
TenantOpen(c) == clients[c].status = "ACTIVE" /\ ActiveRoutingConfigs(c) # <<>>

CallbackArrives(r, up, endpoint, providerCallId, callStatus, signal, outcome, headerMatches, storeFails) ==
  LET rec == [IdleRequest EXCEPT !.kind = endpoint, !.headerMatches = headerMatches,
                !.admitted = verifyStaticSecret(env.secrets, headerMatches),
                !.providerCallId = providerCallId]
      found == FindCall(providerCallId)
  IN  IF ~verifyStaticSecret(env.secrets, headerMatches)
        THEN /\ audit' = createAuditLog(audit, "WEBHOOK_FORBIDDEN", NoId, up)
             /\ req' = [req EXCEPT ![r] = DoneRequest]
             /\ last' = Awaited(up, Answered(rec, Reply(403, "Forbidden")))
      ELSE IF providerCallId = NoId
        THEN /\ audit' = audit
             /\ req' = [req EXCEPT ![r] = DoneRequest]
             /\ last' = Answered(rec, Reply(400, IF endpoint = "bland" THEN "call_id required"
                                                  ELSE "call id required"))
      ELSE IF storeFails
        THEN /\ audit' = createAuditLog(audit, "WEBHOOK_ERROR", NoId, up)
             /\ req' = [req EXCEPT ![r] = DoneRequest]
             /\ last' = Awaited(up, Answered([rec EXCEPT !.threw = TRUE],
                                 Reply(500, "Internal server error")))
      ELSE IF found = {}
        THEN /\ audit' = audit
             /\ req' = [req EXCEPT ![r] = DoneRequest]
             /\ last' = Answered(IF providerCallId \in IssuedIds
                                   THEN [rec EXCEPT !.issued = TRUE, !.signal = signal]
                                   ELSE rec,
                                 Reply(404, "Call not found"))
      ELSE LET c == CHOOSE x \in found : TRUE
           IN  IF IsTerminal(calls[c].status)
                 THEN /\ audit' = audit
                      /\ req' = [req EXCEPT ![r] = DoneRequest]
                      /\ last' = Answered([rec EXCEPT !.found = c, !.sawTerminal = TRUE],
                                          Reply(200, "Already processed"))
                 ELSE /\ audit' = audit
                      /\ req' = Arrive(r, [rec EXCEPT !.pc = "updateCall", !.found = c,
                                                      !.tenantOpen = TenantOpen(calls[c].clientId),
                                                      !.issued = (providerCallId \in IssuedIds),
                                                      !.callId = c, !.leadId = calls[c].leadId,
                                                      !.callStatus = callStatus,
                                                      !.signal = signal,
                                                      !.outcome = outcome])
                      /\ last' = last

CallbackReceive(r, up) ==
  /\ CanArrive(r)
  /\ \E headerMatches \in HeaderChoices, storeFails \in BOOLEAN :
       \/ \E payload \in BlandPayloads({NoId, FreshId} \cup IssuedIds) :
            CallbackArrives(r, up, "bland", payload.call_id, blandCallStatus(payload),
                            BlandSignal(payload),
                            payload.outcome, headerMatches, storeFails)
       \/ \E payload \in VapiPayloads({NoId, FreshId} \cup IssuedIds) :
            CallbackArrives(r, up, "vapi", payload.id, vapiCallStatus(payload),
                            VapiSignal(payload),
                            payload.outcome, headerMatches, storeFails)
  /\ overlapped' = (overlapped \/ (req'[r].pc # "done" /\ \E x \in Requests : InFlight(x)))
  /\ UNCHANGED <<env, clients, crm, verdict, now, ticks, leads, calls, providerRequests>>

\* prisma.call.update with the classified status, the outcome and the end time.
CallbackUpdateCall(r) ==
  /\ req[r].pc = "updateCall"
  /\ calls' = SetCall(req[r].callId, req[r].callStatus, calls[req[r].callId].providerCallId,
                      req[r].outcome, calls[req[r].callId].startedAt,
                      IF req[r].callStatus \in {"COMPLETED", "FAILED"} THEN now ELSE NoTime)
  /\ req' = [req EXCEPT ![r].pc = "updateLead", ![r].outcome = NULL]
  /\ UNCHANGED <<env, clients, crm, verdict, overlapped, now, ticks, leads, audit, providerRequests, last>>

\* prisma.lead.update with the mirrored status, the audit row and the answer.
CallbackUpdateLead(r, up) ==
  /\ req[r].pc = "updateLead"
  /\ leads' = SetLead(req[r].leadId, leadStatusOf(req[r].callStatus), NULL)
  /\ audit' = createAuditLog(audit, "CALL_UPDATED", req[r].leadId, up)
  /\ req' = [req EXCEPT ![r] = DoneRequest]
  /\ last' = Awaited(up, Answered(req[r], Reply(200, "Webhook processed")))
  /\ UNCHANGED <<env, clients, crm, verdict, overlapped, now, ticks, calls, providerRequests>>

CallbackNext(r) == CallbackReceive(r, env.auditUp) \/ CallbackUpdateCall(r) \/ CallbackUpdateLead(r, env.auditUp)

Next == Tick \/ \E r \in Requests : GhlNext(r) \/ CallbackNext(r)

Spec == Init /\ [][Next]_vars

\* Every request that has arrived is served to its answer: the event loop
\* runs each continuation that is ready.
LiveSpec == Spec /\ \A r \in Requests : WF_vars(InFlight(r) /\ (GhlNext(r) \/ CallbackNext(r)))

(***************************************************************************)
(* The same server with the audit store up or down                         *)
(***************************************************************************)
\* One step of request r with the audit store up or down during the step.
RequestStep(r, up) ==
  \/ GhlReceive(r, up) \/ GhlCreateLead(r, up) \/ GhlQuietGate(r, up)
  \/ CreateCallStart(r, up) \/ CreateCallFetch(r, up)
  \/ CreateCallStoreAccepted(r, up) \/ CreateCallLeadCalling(r, up)
  \/ CreateCallFailed(r, up)
  \/ GhlLeadCalling(r, up) \/ GhlLeadFailed(r, up)
  \/ CallbackReceive(r, up) \/ CallbackUpdateCall(r) \/ CallbackUpdateLead(r, up)

\* Deployments whose every audit write succeeds, and the same deployments
\* with every audit write failing.
AuditDeployments ==
  { [d EXCEPT !.env.auditUp = up] :
      d \in { x \in Deployments : x.env.hourCycle = "h23" /\ x.crm.timestamps = {"none"}
                                     /\ x.env.blandKey # "placeholder"
                                     /\ x.store = "empty" },
      up \in BOOLEAN }

AuditInit ==
  /\ \E d \in AuditDeployments :
       /\ env = d.env
       /\ clients = d.clients
       /\ crm = d.crm
  /\ now = InitialNow
  /\ ticks = 0
  /\ leads = <<>>
  /\ calls = <<>>
  /\ audit = EmptyBag
  /\ providerRequests = <<>>
  /\ req = [r \in Requests |-> IdleRequest]
  /\ last = IdleRequest
  /\ overlapped = FALSE
  /\ verdict = NoVerdict

AuditSpec == AuditInit /\ [][Next]_vars

(***************************************************************************)
(* The admin surface (routes/api): PATCH /clients/:id writes the tenant's  *)
(* status, POST /clients/:id/routing writes its routing config's active    *)
(* flag.  Each is one update and one audit row, and can come between any   *)
(* two steps of the webhook requests.                                      *)
(***************************************************************************)
Edits(eventType) == CopiesIn(<<eventType, NoId>>, audit)

\* An edit that also fails the tenant's calls that have not ended.
PatchClientCancels(c, status) ==
  /\ Edits("CLIENT_UPDATED") < MaxEdits
  /\ clients' = [clients EXCEPT ![c].status = status]
  /\ calls' = [x \in CallIds |->
                 IF calls[x].clientId = c /\ calls[x].status \in {"CREATED", "IN_PROGRESS"}
                   THEN [calls[x] EXCEPT !.status = "FAILED"] ELSE calls[x]]
  /\ audit' = createAuditLog(audit, "CLIENT_UPDATED", NoId, env.auditUp)
  /\ UNCHANGED <<env, crm, verdict, overlapped, now, ticks, leads, providerRequests,
                 req, last>>

\* prisma.client.update({ status }) and the CLIENT_UPDATED audit row.
PatchClient(c, status) ==
  /\ Edits("CLIENT_UPDATED") < MaxEdits
  /\ clients' = [clients EXCEPT ![c].status = status]
  /\ audit' = createAuditLog(audit, "CLIENT_UPDATED", NoId, env.auditUp)
  /\ UNCHANGED <<env, crm, verdict, overlapped, now, ticks, leads, calls, providerRequests,
                 req, last>>

\* prisma.routingConfig.upsert({ where: { clientId }, update: { active } })
\* with the other fields sent as they are, and the audit row.
PostRouting(c, active) ==
  /\ Edits("ROUTING_CONFIG_UPDATED") < MaxEdits
  /\ clients' = [clients EXCEPT ![c].routingConfigs =
                   [i \in DOMAIN @ |-> [@[i] EXCEPT !.active = active]]]
  /\ audit' = createAuditLog(audit, "ROUTING_CONFIG_UPDATED", NoId, env.auditUp)
  /\ UNCHANGED <<env, crm, verdict, overlapped, now, ticks, leads, calls, providerRequests,
                 req, last>>

AdminNext ==
  \E c \in ClientIds :
    \/ \E status \in {"ACTIVE", "INACTIVE"} : PatchClient(c, status)
    \/ \E active \in BOOLEAN : PostRouting(c, active)

\* The deployment whose one tenant has a call under way.
AdminDeployments == { d \in Deployments : d.store = "dispatched" }

AdminInit ==
  /\ \E d \in AdminDeployments :
       /\ env = d.env
       /\ clients = d.clients
       /\ crm = d.crm
       /\ leads = IF d.store = "empty" THEN <<>> ELSE DispatchedLeads
       /\ calls = IF d.store = "empty" THEN <<>> ELSE DispatchedCalls
       /\ audit = IF d.store = "empty" THEN EmptyBag ELSE DispatchedAudit
       /\ providerRequests = IF d.store = "empty" THEN <<>> ELSE DispatchedProviderRequests
  /\ now = InitialNow
  /\ ticks = 0
  /\ req = [r \in Requests |-> IdleRequest]
  /\ last = IdleRequest
  /\ overlapped = FALSE
  /\ verdict = NoVerdict

AdminSpec == AdminInit /\ [][Next \/ AdminNext]_vars

(***************************************************************************)
(* isWithinQuietHours called directly: a tenant with any of the quiet      *)
(* windows below, at any of the instants below, on either runtime.         *)
(***************************************************************************)
QuietTimes == { <<0, 0>>, <<0, 20>>, <<6, 0>>, <<8, 0>>, <<20, 0>>, <<22, 0>> }

\* Minutes after InitialNow (a midnight UTC): 00:00, 00:30, 02:00, 06:00,
\* 09:00, 12:00, 21:00 and 23:30 for a tenant on UTC.
QuietInstants == { 0, 30, 120, 360, 540, 720, 1260, 1410 }

QuietOffsets == { 0, -300 }

QuietInit ==
  /\ \E hourCycle \in {"h23", "h24"} :
       env = [secrets |-> FALSE, blandKey |-> "set", vapiKey |-> "set", baseUrl |-> "https",
              hourCycle |-> hourCycle]
  /\ \E quietStart \in QuietTimes, quietEnd \in QuietTimes, offset \in QuietOffsets :
       clients = [c \in {"t1"} |->
                    [BlandTenant EXCEPT !.tzOffsetMinutes = offset,
                                        !.quietHoursStart = quietStart,
                                        !.quietHoursEnd = quietEnd]]
  /\ \E m \in QuietInstants : now = InitialNow + m * 60000
  /\ crm = [contactIds |-> {NULL}, timestamps |-> {"none"}]
  /\ ticks = 0
  /\ leads = <<>>
  /\ calls = <<>>
  /\ audit = EmptyBag
  /\ providerRequests = <<>>
  /\ req = [r \in Requests |-> IdleRequest]
  /\ last = IdleRequest
  /\ overlapped = FALSE
  /\ verdict = NoVerdict

QuietHoursCheck ==
  /\ ~verdict.asked
  /\ verdict' = [asked |-> TRUE,
                 result |-> isWithinQuietHours(now, clients["t1"].tzOffsetMinutes, env.hourCycle,
                                               clients["t1"].quietHoursStart,
                                               clients["t1"].quietHoursEnd)]
  /\ UNCHANGED <<env, clients, crm, now, ticks, leads, calls, audit, providerRequests,
                 req, last, overlapped>>

QuietSpec == QuietInit /\ [][QuietHoursCheck]_vars

(***************************************************************************)
(* generateDedupeKey called directly, twice: each call is given a contact  *)
(* id and a phone that are absent, empty, blank, or a text with or without *)
(* white space around it, and reads the clock itself.                      *)
(***************************************************************************)
\* String.prototype.trim on the texts below.
Trimmed == (" " :> "") @@ (" c1 " :> "c1") @@ (" p1 " :> "p1")
trimNothing(s) == s
trim(s) == IF s \in DOMAIN Trimmed THEN Trimmed[s] ELSE s

\* contactId?.trim(), phone?.trim(), the two truthiness tests and the throw.
generateDedupeKeyFrom(contactId, phone, t) ==
  LET safeContactId == IF contactId = NULL THEN NULL ELSE trim(contactId)
      safePhone == IF phone = NULL THEN NULL ELSE trim(phone)
  IN  IF safeContactId \notin {NULL, ""}
        THEN [threw |-> FALSE, key |-> generateDedupeKey(safeContactId, safePhone, t)]
        ELSE IF safePhone \notin {NULL, ""}
          THEN [threw |-> FALSE, key |-> generateDedupeKey(NULL, safePhone, t)]
          ELSE [threw |-> TRUE, key |-> <<>>]

DedupeContactIds == { NULL, "", " ", "c1", " c1 ", "c2" }
DedupePhones == { NULL, "", "p1", " p1 ", "p2" }

\* Milliseconds between the two calls.
DedupeDelays == { 0, 1, TickMs }

DedupeInit ==
  /\ env = [secrets |-> FALSE, blandKey |-> "set", vapiKey |-> "set", baseUrl |-> "https",
            hourCycle |-> "h23"]
  /\ clients = [c \in {"t1"} |-> BlandTenant]
  /\ crm = [contactIds |-> {NULL}, timestamps |-> {"none"}]
  /\ \E t \in { InitialNow, InitialNow + TickMs - 1 } : now = t
  /\ ticks = 0
  /\ leads = <<>>
  /\ calls = <<>>
  /\ audit = EmptyBag
  /\ providerRequests = <<>>
  /\ req = [r \in Requests |-> IdleRequest]
  /\ last = IdleRequest
  /\ overlapped = FALSE
  /\ \E c1 \in DedupeContactIds, p1 \in DedupePhones,
        c2 \in DedupeContactIds, p2 \in DedupePhones :
       verdict = [asked |-> FALSE,
                  first |-> [contactId |-> c1, phone |-> p1],
                  second |-> [contactId |-> c2, phone |-> p2],
                  result |-> <<>>]

DedupeKeyCheck ==
  /\ ~verdict.asked
  /\ \E d \in DedupeDelays :
       /\ now' = now + d
       /\ verdict' = [verdict EXCEPT
            !.asked = TRUE,
            !.result = << [at |-> now] @@
                            generateDedupeKeyFrom(verdict.first.contactId,
                                                  verdict.first.phone, now),
                          [at |-> now + d] @@
                            generateDedupeKeyFrom(verdict.second.contactId,
                                                  verdict.second.phone, now + d) >>]
  /\ UNCHANGED <<env, clients, crm, ticks, leads, calls, audit, providerRequests,
                 req, last, overlapped>>

DedupeSpec == DedupeInit /\ [][DedupeKeyCheck]_vars

(***************************************************************************)
(* The freshness decision of the lead webhook taken on its own: a tenant   *)
(* in its quiet hours (02:00 of 00:20-06:00), a payload timestamp of any   *)
(* kind around the edges of the immediate window, and the two lines that   *)
(* decide whether the submission is immediate and whether it is skipped.   *)
(***************************************************************************)
FreshNows == { InitialNow + 7200000, InitialNow + 7200001, InitialNow + 7200999 }

\* now - timestamp, in ms.
FreshOffsets ==
  { -1000, -999, -1, 0, 1, 999, 1000,
    ImmediateWindowSeconds * 1000 - 1, ImmediateWindowSeconds * 1000,
    ImmediateWindowSeconds * 1000 + 999, (ImmediateWindowSeconds + 1) * 1000,
    (ImmediateWindowSeconds + 1) * 1000 + 1, 2 * ImmediateWindowSeconds * 1000 }

FreshTimestamps(t) ==
  { [kind |-> k, ms |-> 0] : k \in {"none", "text"} }
    \cup { [kind |-> k, ms |-> t - d] : k \in {"iso", "epoch"}, d \in FreshOffsets }

FreshInit ==
  /\ \E hourCycle \in {"h23", "h24"} :
       env = [secrets |-> FALSE, blandKey |-> "set", vapiKey |-> "set", baseUrl |-> "https",
              hourCycle |-> hourCycle]
  /\ clients = [c \in {"t1"} |-> BlandTenant]
  /\ crm = [contactIds |-> {NULL}, timestamps |-> {"none"}]
  /\ now \in FreshNows
  /\ ticks = 0
  /\ leads = <<>>
  /\ calls = <<>>
  /\ audit = EmptyBag
  /\ providerRequests = <<>>
  /\ req = [r \in Requests |-> IdleRequest]
  /\ last = IdleRequest
  /\ overlapped = FALSE
  /\ \E timestamp \in FreshTimestamps(now) :
       verdict = [asked |-> FALSE, timestamp |-> timestamp, result |-> FALSE, skipped |-> FALSE]

\* const a = ageSeconds(...); const isImmediate = ...; if (!isImmediate && isWithinQuietHours(...))
FreshnessCheck ==
  /\ ~verdict.asked
  /\ verdict' = [verdict EXCEPT
       !.asked = TRUE,
       !.result = isImmediate(verdict.timestamp, now),
       !.skipped = /\ ~isImmediate(verdict.timestamp, now)
                   /\ isWithinQuietHours(now, clients["t1"].tzOffsetMinutes, env.hourCycle,
                                         clients["t1"].quietHoursStart,
                                         clients["t1"].quietHoursEnd)]
  /\ UNCHANGED <<env, clients, crm, now, ticks, leads, calls, audit, providerRequests,
                 req, last, overlapped>>

FreshSpec == FreshInit /\ [][FreshnessCheck]_vars

(***************************************************************************)
(* Properties.                                                             *)
(***************************************************************************)
IsCallback(rec) == rec.kind \in {"bland", "vapi"}

\* Request r arrives in this step; the record of what it sent and was told.
Arrives(r) == req[r].pc = "idle" /\ req'[r].pc # "idle"
Arrived(r) == IF req'[r].pc = "done" THEN last' ELSE req'[r]

\* C1: in every reachable state, whatever the interleaving of lead webhooks,
\* no two Lead rows have the same client and the same dedupe key.
OneLeadPerDedupeKey ==
  \A a, b \in LeadIds :
    (leads[a].clientId = leads[b].clientId /\ leads[a].dedupeKey = leads[b].dedupeKey) => a = b

\* Two lead webhooks both passed the findUnique pre-check and the insert of
\* the second was rejected by the unique index.
RaceLoserRejected ==
  /\ last.kind = "ghl" /\ last.raced /\ last.insertRejected
  /\ \E l \in LeadIds : leads[l].clientId = last.clientId /\ leads[l].dedupeKey = last.dedupeKey

\* C2: a lead webhook whose insert was rejected by the unique index is
\* answered as a duplicate, with a success status and not with HTTP 500.
RaceLoserAnsweredAsDuplicate ==
  (last.kind = "ghl" /\ last.insertRejected) => last.response.status \in 200..299

\* The dedupe window an instant falls into.
WindowOf(t) == t \div (30 * 60 * 1000)

\* Lead row l records the same tenant and the same contact id (or, without
\* a contact id, the same phone) as the submission rec, in the same window.
SameSubmission(l, rec) ==
  /\ leads[l].clientId = rec.clientId
  /\ leads[l].contactId = rec.contactId
  /\ rec.contactId = NULL => leads[l].phone = rec.phone
  /\ WindowOf(leads[l].keyTime) = WindowOf(rec.keyTime)

\* C3: a lead webhook that arrives when a Lead of the same tenant and the
\* same contact id (or phone) created in the same dedupe window exists is
\* answered 200 "Duplicate ignored" with that Lead's id, and no two Lead
\* rows ever record the same submission.
SecondSubmissionIsDuplicate ==
  /\ (last.kind = "ghl" /\ last.keyTime # NoTime /\ ~last.insertRejected) =>
       \A l \in 1..last.leadsAtArrival :
         SameSubmission(l, last) =>
           /\ last.response = [Reply(200, "Duplicate ignored") EXCEPT !.leadId = l]
           /\ \A k \in LeadIds : SameSubmission(k, last) => k = l
  /\ \A a, b \in LeadIds :
       SameSubmission(a, [clientId |-> leads[b].clientId, contactId |-> leads[b].contactId,
                          phone |-> leads[b].phone, keyTime |-> leads[b].keyTime]) => a = b

\* The second of two submissions served one after the other got the
\* duplicate answer with the first one's lead id.
SecondSubmissionAnswered ==
  /\ last.kind = "ghl" /\ ~last.raced /\ last.response.message = "Duplicate ignored"
  /\ Len(leads) = 1 /\ last.response.leadId = 1 /\ SameSubmission(1, last)

\* C4: every provider callback that passes the secret check is answered
\* with HTTP 200.
CallbackAlwaysAcknowledged ==
  (IsCallback(last) /\ last.admitted) => last.response.status = 200

\* C5: a Call whose status is COMPLETED or FAILED keeps that status in
\* every later step.
TerminalCallNeverChanges ==
  [][\A c \in CallIds :
       calls[c].status \in {"COMPLETED", "FAILED"} => calls'[c].status = calls[c].status]_vars

\* C6: a Lead whose status is COMPLETED or FAILED keeps that status in
\* every later step.
TerminalLeadNeverChanges ==
  [][\A l \in LeadIds :
       leads[l].callStatus \in {"COMPLETED", "FAILED"} =>
         leads'[l].callStatus = leads[l].callStatus]_vars

\* C7: a callback that passes the secret check and whose lookup finds a Call
\* that is COMPLETED or FAILED ends in the step it arrives in, answered 200
\* "Already processed", and that step changes no Lead row, no Call row and
\* writes no audit entry.
TerminalCallbackOnlyAcknowledged ==
  [][\A r \in Requests :
       (/\ Arrives(r) /\ IsCallback(Arrived(r))
        /\ Arrived(r).admitted /\ ~Arrived(r).threw
        /\ \E c \in CallIds : /\ calls[c].providerCallId = Arrived(r).providerCallId
                              /\ calls[c].providerCallId # NoId
                              /\ calls[c].status \in {"COMPLETED", "FAILED"})
       => /\ req'[r].pc = "done"
          /\ last'.response = Reply(200, "Already processed")
          /\ UNCHANGED <<leads, calls, audit>>]_vars

\* A callback for a Call that an earlier callback had completed, with an
\* outcome, has been acknowledged.
TerminalCallbackAcknowledged ==
  /\ IsCallback(last) /\ last.response.message = "Already processed"
  /\ calls[last.found].status = "COMPLETED" /\ calls[last.found].outcome = "answered"
  /\ calls[last.found].updates = 2

\* C8: a callback without a call id, or with one that no Call row has, ends
\* in the step it arrives in, and that step changes no Lead and no Call row.
UnmatchedCallbackChangesNoRow ==
  [][\A r \in Requests :
       (/\ Arrives(r) /\ IsCallback(Arrived(r))
        /\ \/ Arrived(r).providerCallId = NoId
           \/ \A c \in CallIds : calls[c].providerCallId # Arrived(r).providerCallId)
       => /\ req'[r].pc = "done"
          /\ UNCHANGED <<leads, calls>>]_vars

\* With a Call in progress in the store, a callback without a call id and a
\* callback with an unknown one have been answered.
UnmatchedCallbackAnswered ==
  /\ IsCallback(last) /\ last.admitted /\ last.response.status = 404
  /\ \E c \in CallIds : calls[c].status = "IN_PROGRESS" /\ calls[c].providerCallId # NoId
  /\ \E l \in LeadIds : leads[l].callStatus = "CALLING"

\* The status changes the claimed lifecycle allows.
ClaimedLifecycle ==
  { <<"NEW", "QUEUED">>, <<"QUEUED", "CALLING">>, <<"CALLING", "COMPLETED">>,
    <<"CALLING", "FAILED">>, <<"NEW", "SKIPPED">> }

\* The status changes of a run in which no two requests overlap: the
\* claimed ones and QUEUED -> FAILED, the dispatch that fails.
SequentialLifecycle == ClaimedLifecycle \cup { <<"QUEUED", "FAILED">> }

\* The further status changes of a run in which requests have overlapped.
OverlapChanges ==
  { <<"QUEUED", "COMPLETED">>, <<"COMPLETED", "CALLING">>, <<"FAILED", "CALLING">>,
    <<"COMPLETED", "FAILED">>, <<"FAILED", "COMPLETED">> }

HappyPath ==
  /\ (last.kind = "ghl" /\ ~last.raced /\ last.result.success) =>
       /\ last.response.status = 200
       /\ last.response.message = "Lead received and call initiated"
       /\ SubSeq(leads[last.leadId].trail, 1, 3) = <<"NEW", "QUEUED", "CALLING">>
       /\ SubSeq(calls[last.callId].trail, 1, 2) = <<"CREATED", "IN_PROGRESS">>
       /\ calls[last.callId].leadId = last.leadId
       /\ last.response.callId # NoId
       /\ last.response.callId = calls[last.callId].providerCallId
  /\ (IsCallback(last) /\ ~last.raced /\ last.callStatus = "COMPLETED") =>
       /\ last.response = Reply(200, "Webhook processed")
       /\ calls[last.callId].status = "COMPLETED"
       /\ calls[last.callId].endedAt # NoTime
       /\ leads[last.leadId].callStatus = "COMPLETED"

\* From the empty store: the webhook was answered with the provider call
\* id, then the "completed" callback was processed.
HappyPathCompleted ==
  /\ IsCallback(last) /\ ~last.raced /\ last.callStatus = "COMPLETED"
  /\ Len(providerRequests) = 1 /\ "t2" \in ClientIds
  /\ leads[last.leadId].trail = <<"NEW", "QUEUED", "CALLING", "COMPLETED">>
  /\ calls[last.callId].trail = <<"CREATED", "IN_PROGRESS", "COMPLETED">>
  /\ calls[last.callId].endedAt = now

\* The local time of day of an instant, in minutes since midnight.
LocalMinutesOf(t, tzOffsetMinutes) == ((t \div 60000) + tzOffsetMinutes) % 1440

\* The time of day cur lies in the window [start, end), which wraps
\* midnight when start > end.
InWindow(cur, start, end) ==
  IF start <= end THEN start <= cur /\ cur < end ELSE cur >= start \/ cur < end

\* Lead l was submitted while its tenant was inside quiet hours.
SubmittedInQuietHours(l) ==
  LET c == clients[leads[l].clientId]
  IN  InWindow(LocalMinutesOf(leads[l].keyTime, c.tzOffsetMinutes),
               c.quietHoursStart[1] * 60 + c.quietHoursStart[2],
               c.quietHoursEnd[1] * 60 + c.quietHoursEnd[2])

\* Lead l carried no usable timestamp, or one at most 300 s old.
SubmittedFresh(l) ==
  \/ leads[l].stamp.kind # "iso"
  \/ /\ leads[l].keyTime - leads[l].stamp.ms >= 0
     /\ (leads[l].keyTime - leads[l].stamp.ms) \div 1000 <= 300

\* C11: a Lead that has left NEW is SKIPPED, with no Call and no provider
\* request, exactly when it was submitted inside quiet hours with a
\* timestamp older than the immediate window; every other Lead was queued
\* for dispatch.
FreshSubmissionBypass ==
  \A l \in LeadIds :
    Len(leads[l].trail) >= 2 =>
      IF SubmittedInQuietHours(l) /\ ~SubmittedFresh(l)
        THEN /\ leads[l].trail = <<"NEW", "SKIPPED">>
             /\ \A c \in CallIds : calls[c].leadId # l
             /\ \A i \in 1..Len(providerRequests) : providerRequests[i].leadId # l
        ELSE leads[l].trail[2] = "QUEUED"

\* C12: isWithinQuietHours returns true exactly when the tenant's local time
\* of day is in [start, end), the window wrapping midnight when start > end.
QuietHoursExactlyInWindow ==
  verdict.asked =>
    (verdict.result <=>
       InWindow(LocalMinutesOf(now, clients["t1"].tzOffsetMinutes),
                clients["t1"].quietHoursStart[1] * 60 + clients["t1"].quietHoursStart[2],
                clients["t1"].quietHoursEnd[1] * 60 + clients["t1"].quietHoursEnd[2]))

\* Lead row l records the same tenant and the same contact id (or, without
\* a contact id, the same phone) as the submission rec.
SameCombination(l, rec) ==
  /\ leads[l].clientId = rec.clientId
  /\ leads[l].contactId = rec.contactId
  /\ rec.contactId = NULL => leads[l].phone = rec.phone

StoppedBy(rec, messages) == rec.clientId = NULL /\ rec.response.message \in messages

\* C14: an admitted lead webhook is answered 404 for an unknown tenant, 400
\* for a missing or invalid phone, and 200 for every business outcome: the
\* tenant and routing gates and every webhook that passed the gates, be it
\* a duplicate, a quiet-hours skip, or a dispatch that succeeded or failed;
\* 500 is the answer only of a webhook that stopped on a store failure.
LeadWebhookStatusByOutcome ==
  (last.kind = "ghl" /\ last.admitted) =>
    /\ last.response.status \in {200, 400, 404, 500}
    /\ StoppedBy(last, {"Client not found"}) => last.response.status = 404
    /\ StoppedBy(last, {"Phone number required", "Invalid phone number"}) =>
         last.response.status = 400
    /\ StoppedBy(last, {"Client inactive - skipped", "No routing config - skipped"}) =>
         last.response.status = 200
    /\ last.clientId # NULL => last.response.status = 200
    /\ last.response.status = 500 => last.clientId = NULL /\ last.threw

\* The positions of a request inside createCall.
InCreateCall == {"createCall", "fetch", "storeAccepted", "storeFailed", "leadCalling"}

\* C15: createCall never throws, and whenever it returns without success,
\* whatever the provider tag and the failure, its result carries an error
\* and it has recorded an audit entry (CALL_FAILED or CALL_ERROR) of that
\* failure for the lead before it returns to the webhook.
CreateCallFailureIsAudited ==
  [][\A r \in Requests :
       (req[r].pc \in InCreateCall /\ req'[r].pc \notin InCreateCall) =>
         /\ req'[r].pc \in {"ghlCalling", "ghlFailed"}
         /\ req'[r].pc = "ghlFailed" =>
              /\ ~req'[r].result.success /\ req'[r].result.error # NULL
              /\ \E e \in {"CALL_FAILED", "CALL_ERROR"} :
                   CopiesIn(<<e, req[r].leadId>>, audit') =
                     CopiesIn(<<e, req[r].leadId>>, audit) + 1]_vars

\* What a caller or a reader of the store can see of a step of request r:
\* where the handler stands, its answer, the rows and the provider requests.
Pcs ==
  {"done", "createLead", "quietGate", "createCall", "fetch", "storeAccepted", "storeFailed",
   "leadCalling", "ghlCalling", "ghlFailed", "updateCall", "updateLead"}
Seen(r) ==
  { <<"pc", p>> : p \in Pcs } \cup
  { <<"status", st>> : st \in {0, 200, 400, 403, 404, 500} } \cup
  { <<"rows", n>> : n \in {<<0, 0, 0>>, <<1, 0, 0>>, <<0, 1, 0>>, <<0, 0, 1>>} } \cup
  { <<"lead", st>> : st \in {"NEW", "QUEUED", "SKIPPED", "CALLING", "COMPLETED", "FAILED", "none"} } \cup
  { <<"call", st>> : st \in {"CREATED", "IN_PROGRESS", "COMPLETED", "FAILED", "none"} }

\* Request r takes a step, with the audit store up or down, that shows o.
StepShows(r, up, o) ==
  /\ RequestStep(r, up)
  /\ CASE o[1] = "pc" -> req'[r].pc = o[2]
       [] o[1] = "status" -> (IF req'[r].pc = "done" THEN last'.response.status ELSE 0) = o[2]
       [] o[1] = "rows" -> <<Len(leads') - Len(leads), Len(calls') - Len(calls),
                             Len(providerRequests') - Len(providerRequests)>> = o[2]
       [] o[1] = "lead" ->
            IF leads' = leads \/ Len(leads') # Len(leads) THEN o[2] = "none"
            ELSE \E l \in LeadIds : leads'[l] # leads[l] /\ leads'[l].callStatus = o[2]
       [] o[1] = "call" ->
            IF calls' = calls \/ Len(calls') # Len(calls) THEN o[2] = "none"
            ELSE \E c \in CallIds : calls'[c] # calls[c] /\ calls'[c].status = o[2]

\* C16: in every reachable state, with audit writes succeeding or failing
\* so far, whatever a request can do next and show of itself (its answer,
\* its place in the handler, the Lead and Call rows, the provider requests)
\* with the audit store up it can do with the audit store down, and the
\* other way round.
AuditWritesNeverShow ==
  \A r \in Requests : \A o \in Seen(r) :
    ENABLED StepShows(r, TRUE, o) <=> ENABLED StepShows(r, FALSE, o)

\* Every audit write of a served lead webhook failed, and the webhook was
\* answered with its call dispatched.
ServedWithAuditDown ==
  /\ ~env.auditUp /\ audit = EmptyBag
  /\ last.kind = "ghl" /\ last.response.message = "Lead received and call initiated"
  /\ \E c \in CallIds : calls[c].status = "IN_PROGRESS"

\* The transfer number the routing policy of the lead's tenant configures.
ConfiguredTransfer(leadId) ==
  Head(ActiveRoutingConfigs(leads[leadId].clientId)).transferNumber

\* C17: a provider request for a lead whose configured transfer number is
\* the phone being called carries no transfer number and a CALL_WARNING
\* audit entry is recorded for the lead; a provider request with another
\* configured transfer number carries that number.
SelfTransferIsDropped ==
  \A i \in 1..Len(providerRequests) :
    LET sent == providerRequests[i]
    IN  IF ConfiguredTransfer(sent.leadId) = sent.phone
          THEN /\ sent.transfer = NULL
               /\ BagIn(<<"CALL_WARNING", sent.leadId>>, audit)
          ELSE sent.transfer = ConfiguredTransfer(sent.leadId)

\* The tenant exists, is ACTIVE and has an active routing policy, and the
\* phone is a normalised phone number.
PassesGates(clientId, phone) ==
  /\ clientId \in DOMAIN clients
  /\ clients[clientId].status = "ACTIVE"
  /\ \E i \in 1..Len(clients[clientId].routingConfigs) : clients[clientId].routingConfigs[i].active
  /\ phone \in {"p1"}

\* Every Lead row, and with it every Call row and provider request, is of a
\* submission that passed the gates.
StoredOnlyPastGates ==
  /\ \A l \in LeadIds : PassesGates(leads[l].clientId, leads[l].phone)
  /\ \A c \in CallIds : calls[c].leadId \in LeadIds
  /\ \A i \in 1..Len(providerRequests) : providerRequests[i].leadId \in LeadIds
  /\ \A r \in Requests :
       (req[r].kind = "ghl" /\ InFlight(r)) => PassesGates(req[r].clientId, req[r].phone)

FailedDispatchFailsCallAndLead ==
  [][\A r \in Requests :
       (req[r].pc = "ghlFailed" /\ req'[r].pc # "ghlFailed" /\ req[r].callId # NoId) =>
         /\ calls'[req[r].callId].status = "FAILED"
         /\ calls'[req[r].callId].outcome = req[r].result.error
         /\ leads'[req[r].leadId].callStatus = "FAILED"
         /\ leads'[req[r].leadId].skipReason = req[r].result.error]_vars

Returns(r) == req[r].pc \in InCreateCall /\ req'[r].pc \in {"ghlCalling", "ghlFailed"}

\* The provider request of r's dispatch, once it is answered, and whether
\* the answer was an HTTP success with a call identifier.
AnswersOf(r) ==
  { providerRequests'[i] : i \in { j \in 1..Len(providerRequests') :
                                     providerRequests'[j].leadId = req[r].leadId } }
ProviderAccepted(r) == \E a \in AnswersOf(r) : a.answeredId # NoId

\* What a successful dispatch leaves: the Call went from CREATED to
\* IN_PROGRESS with the provider call id and a start time, the Lead is CALLING.
AcceptedRows(r) ==
  LET c == calls'[req[r].callId]
  IN  /\ c.providerCallId = req'[r].result.callId
      /\ \E a \in AnswersOf(r) : a.answeredId = c.providerCallId
      /\ Len(c.trail) >= 2 /\ c.trail[2] = "IN_PROGRESS"
      /\ c.startedAt # NoTime
      /\ leads'[req[r].leadId].callStatus = "CALLING"

\* No row shows an accepted call: the Call, if there is one, never was
\* IN_PROGRESS and has no provider call id.
NoAcceptedRows(r) ==
  req[r].callId # NoId =>
    LET c == calls'[req[r].callId]
    IN  c.providerCallId = NoId /\ c.startedAt = NoTime /\ c.trail \in {<<"CREATED">>, <<"CREATED", "FAILED">>}

Misconfigured(provider) ==
  \/ provider = "BLAND" /\ env.blandKey # "set"
  \/ provider = "VAPI" /\ env.vapiKey # "set"
  \/ env.baseUrl # "https"

\* C22: a dispatch through BLAND or VAPI with the credential missing or a
\* placeholder, or with no HTTPS callback base URL, returns a failure with
\* an error, creating no Call row and sending no provider request, and the
\* webhook then answers with the Lead FAILED and that error as skip reason.
MisconfiguredDispatchStops ==
  [][\A r \in Requests :
       (req[r].kind = "ghl" /\ req[r].routing.provider \in {"BLAND", "VAPI"}
        /\ Misconfigured(req[r].routing.provider)) =>
         /\ (req[r].pc = "createCall" /\ req'[r].pc # "createCall") =>
              /\ req'[r].pc = "ghlFailed"
              /\ ~req'[r].result.success /\ req'[r].result.error # NULL
              /\ calls' = calls /\ providerRequests' = providerRequests
         /\ req[r].pc = "fetch" => req'[r].pc = "fetch"
         /\ (req[r].pc = "ghlFailed" /\ req'[r].pc # "ghlFailed") =>
              /\ leads'[req[r].leadId].callStatus = "FAILED"
              /\ leads'[req[r].leadId].skipReason = req[r].result.error
              /\ \A c \in CallIds : calls[c].leadId # req[r].leadId]_vars

\* C23: a Lead submitted inside the tenant's quiet hours with a timestamp
\* older than the immediate window is, once the quiet-hours policy has
\* run, SKIPPED with the quiet-hours skip reason, with no Call row and no
\* provider request; and a Lead that has been SKIPPED has had no other
\* status since.
StaleQuietLeadStaysSkipped ==
  \A l \in LeadIds :
    /\ (Len(leads[l].trail) >= 2 /\ SubmittedInQuietHours(l) /\ ~SubmittedFresh(l)) =>
         /\ leads[l].callStatus = "SKIPPED" /\ leads[l].skipReason = "Quiet hours"
         /\ \A c \in CallIds : calls[c].leadId # l
         /\ \A i \in 1..Len(providerRequests) : providerRequests[i].leadId # l
    /\ (\E i \in 1..Len(leads[l].trail) : leads[l].trail[i] = "SKIPPED") =>
         leads[l].trail[Len(leads[l].trail)] = "SKIPPED"

\* The Call status a signal stands for, and the Lead status that mirrors a
\* Call status.
StatusOfSignal(signal) ==
  CASE signal = "completed" -> "COMPLETED"
    [] signal = "failed" -> "FAILED"
    [] OTHER -> "IN_PROGRESS"
MirrorOf(callStatus) ==
  CASE callStatus = "COMPLETED" -> "COMPLETED"
    [] callStatus = "FAILED" -> "FAILED"
    [] callStatus = "IN_PROGRESS" -> "CALLING"

\* C24: a callback that found a non-terminal Call classifies it COMPLETED
\* on a completed signal, else FAILED on a failed or error signal, else
\* IN_PROGRESS; it writes that status to the Call and its mirror to the
\* Lead; and when it overlapped no other request, the Lead status is the
\* mirror of the Call status once it has answered.
CallbackClassifiesAndMirrors ==
  [][\A r \in Requests :
       /\ (Arrives(r) /\ IsCallback(Arrived(r)) /\ req'[r].pc = "updateCall") =>
            /\ calls[req'[r].callId].status \notin {"COMPLETED", "FAILED"}
            /\ req'[r].callStatus = StatusOfSignal(req'[r].signal)
       /\ (req[r].pc = "updateCall" /\ req'[r].pc # "updateCall") =>
            calls'[req[r].callId].status = StatusOfSignal(req[r].signal)
       /\ (req[r].pc = "updateLead" /\ req'[r].pc # "updateLead") =>
            /\ leads'[req[r].leadId].callStatus = MirrorOf(StatusOfSignal(req[r].signal))
            /\ ~req[r].raced =>
                 leads'[req[r].leadId].callStatus = MirrorOf(calls'[req[r].callId].status)]_vars

\* A callback with neither signal was processed on its own: the Call is
\* IN_PROGRESS and the Lead CALLING.
ProgressCallbackMirrored ==
  /\ IsCallback(last) /\ ~last.raced /\ last.signal = "none"
  /\ last.response.message = "Webhook processed"
  /\ calls[last.callId].status = "IN_PROGRESS"
  /\ leads[last.leadId].callStatus = "CALLING"

\* C25: in every reachable state a Call with an end time is COMPLETED or
\* FAILED; an end time is written only by the Call update of a callback
\* classified COMPLETED or FAILED, which sets that status with it, and the
\* Call update of a callback classified IN_PROGRESS leaves the Call
\* without an end time.
EndTimeOnlyOnTerminal ==
  /\ [](\A c \in CallIds : calls[c].endedAt # NoTime => calls[c].status \in {"COMPLETED", "FAILED"})
  /\ [][/\ \A c \in CallIds :
             (calls'[c].endedAt # calls[c].endedAt /\ calls'[c].endedAt # NoTime) =>
               \E r \in Requests :
                 /\ IsCallback(req[r]) /\ req[r].pc = "updateCall" /\ req'[r].pc = "updateLead"
                 /\ req[r].callId = c /\ req[r].signal \in {"completed", "failed"}
                 /\ calls'[c].status \in {"COMPLETED", "FAILED"}
        /\ \A r \in Requests :
             (req[r].pc = "updateCall" /\ req'[r].pc = "updateLead" /\ req[r].signal = "none") =>
               calls'[req[r].callId].endedAt = NoTime]_vars

\* A callback with a failed signal has been processed and has ended its Call.
CallEnded ==
  /\ \E c \in CallIds : calls[c].endedAt # NoTime /\ calls[c].status = "FAILED"
  /\ IsCallback(last) /\ last.signal = "failed" /\ last.response.message = "Webhook processed"

\* Every status change of every Call is one of the given ones, from CREATED on.
CallFollows(changes) ==
  \A c \in CallIds :
    /\ calls[c].trail[1] \in {"CREATED", "IN_PROGRESS"}
    /\ \A i \in 1..(Len(calls[c].trail) - 1) :
         <<calls[c].trail[i], calls[c].trail[i + 1]>> \in changes

\* In the happy path (accepted by the provider, then one callback, which
\* ends the call, and none being processed) the Call row has been updated
\* exactly twice.
HappyPathUpdatesTwice ==
  \A c \in CallIds :
    (/\ Len(calls[c].trail) = 3 /\ calls[c].trail[1] = "CREATED"
     /\ CopiesIn(<<"CALL_UPDATED", calls[c].leadId>>, audit) = 1
     /\ \A r \in Requests : ~(IsCallback(req[r]) /\ InFlight(r) /\ req[r].callId = c))
    => calls[c].updates = 2

DuplicateChangesNothing ==
  [][\A r \in Requests : \A l \in LeadIds :
       (/\ Arrives(r) /\ Arrived(r).kind = "ghl" /\ Arrived(r).keyTime # NoTime
        /\ leads[l].clientId = Arrived(r).clientId
        /\ leads[l].dedupeKey = Arrived(r).dedupeKey)
       => /\ req'[r].pc = "done"
          /\ last'.response = [Reply(200, "Duplicate ignored") EXCEPT !.leadId = l]
          /\ leads' = leads /\ calls' = calls /\ providerRequests' = providerRequests]_vars

\* A lead webhook was answered as the duplicate of a Lead that is FAILED,
\* and the Lead still is.
DuplicateOfFailedLead ==
  /\ last.kind = "ghl" /\ last.response.message = "Duplicate ignored"
  /\ leads[last.response.leadId].callStatus = "FAILED"
  /\ leads[last.response.leadId].skipReason # NULL
  /\ Len(leads) = 1

\* C28: in every reachable state no two Call rows carry the same provider
\* call identifier, so a callback's identifier selects at most one Call; and
\* a dispatch whose provider response repeats an identifier stored on
\* another Call changes no Call row.
RepeatsStoredId(r) ==
  \E c \in CallIds : c # req[r].callId /\ calls[c].providerCallId = req[r].providerCallId

ProviderCallIdIsUnique ==
  /\ [](/\ \A c, d \in CallIds :
             (c # d /\ calls[c].providerCallId # NoId)
             => calls[c].providerCallId # calls[d].providerCallId
        /\ \A id \in IssuedIds \cup {FreshId} : Cardinality(FindCall(id)) <= 1)
  /\ [][\A r \in Requests :
          (req[r].pc = "storeAccepted" /\ req'[r].pc # "storeAccepted" /\ RepeatsStoredId(r))
          => calls' = calls]_vars

\* A dispatch was answered with an identifier another Call holds: its own
\* Call row carries no identifier and the other Call keeps it.
RepeatedIdRejected ==
  \E r \in Requests :
    /\ req[r].pc = "ghlFailed" /\ req[r].result.error = "Unique constraint failed"
    /\ calls[req[r].callId].providerCallId = NoId
    /\ calls[req[r].callId].status = "CREATED"
    /\ \E c \in CallIds : calls[c].providerCallId # NoId

\* C29: the dedupe key is derived from the contact id whenever one is
\* present and from the phone only otherwise: within one window, two calls
\* with the same contact id and different phones return the same key, two
\* calls with the same phone and different contact ids return different
\* keys, and a call with neither a contact id nor a phone throws.
DedupeKeyRule(present(_), sameText(_, _)) ==
  verdict.asked =>
    LET a == verdict.first
        b == verdict.second
        ka == verdict.result[1]
        kb == verdict.result[2]
        From(sub, k) ==
          /\ present(sub.contactId) => (~k.threw /\ k.key[1] = "contact")
          /\ (~present(sub.contactId) /\ present(sub.phone))
               => (~k.threw /\ k.key[1] = "phone")
          /\ (~present(sub.contactId) /\ ~present(sub.phone)) => k.threw
    IN  /\ From(a, ka) /\ From(b, kb)
        /\ WindowOf(ka.at) = WindowOf(kb.at) =>
             /\ (present(a.contactId) /\ sameText(a.contactId, b.contactId))
                  => ka.key = kb.key
             /\ (/\ present(a.contactId) /\ present(b.contactId)
                 /\ ~sameText(a.contactId, b.contactId) /\ sameText(a.phone, b.phone))
                  => (~ka.threw /\ ~kb.threw /\ ka.key # kb.key)

GivenText(x) == x \notin {NULL, ""}
EqualText(x, y) == x = y

DedupeKeyFromContactElsePhone == DedupeKeyRule(GivenText, EqualText)

\* C29 as the code has it: white space around a contact id or a phone does
\* not count; a blank one is as good as absent, and two that differ only in
\* the white space around them are the same.
Stripped(x) ==
  CASE x = " c1 " -> "c1"
    [] x = " p1 " -> "p1"
    [] x = " " -> ""
    [] OTHER -> x
NonBlankText(x) == Stripped(x) \notin {NULL, ""}
EqualStripped(x, y) == Stripped(x) = Stripped(y)

DedupeKeyFromTrimmedContactElsePhone == DedupeKeyRule(NonBlankText, EqualStripped)

\* Two calls in one window with the same contact id, one with white space
\* around it, and different phones returned the same contact key.
PaddedContactIdSameKey ==
  /\ verdict.asked
  /\ verdict.first.contactId = "c1" /\ verdict.second.contactId = " c1 "
  /\ verdict.first.phone = "p1" /\ verdict.second.phone = "p2"
  /\ WindowOf(verdict.result[1].at) = WindowOf(verdict.result[2].at)
  /\ verdict.result[1].at # verdict.result[2].at
  /\ ~verdict.result[1].threw /\ verdict.result[1].key[1] = "contact"
  /\ verdict.result[1].key = verdict.result[2].key

\* C30: over a whole lead-webhook request, a dispatch the provider rejected
\* leaves a CALL_FAILED audit entry for the Lead and no CALL_ERROR entry, and
\* a dispatch that threw leaves a CALL_ERROR entry and no CALL_FAILED entry.
DispatchFailureKindsAudited ==
  (last.kind = "ghl" /\ last.response.message = "Lead received but call failed") =>
    LET l == last.response.leadId
        failed == CopiesIn(<<"CALL_FAILED", l>>, audit)
        error == CopiesIn(<<"CALL_ERROR", l>>, audit)
    IN  /\ last.response.error \in {"provider error", "Call creation failed (HTTP 200)"}
             => (failed > 0 /\ error = 0)
        /\ last.response.error \in {"fetch failed", "Unique constraint failed"}
             => (error > 0 /\ failed = 0)

\* C31: in every reachable state, whatever the interleaving of lead
\* webhooks and callbacks, each Lead has at most one Call row and at most
\* one provider request was sent for it; in particular a failed dispatch is
\* not retried.
CallsOf(l) == { c \in CallIds : calls[c].leadId = l }
ProviderRequestsOf(l) == { i \in 1..Len(providerRequests) : providerRequests[i].leadId = l }

LeadDispatchedAtMostOnce ==
  \A l \in LeadIds : Cardinality(CallsOf(l)) <= 1 /\ Cardinality(ProviderRequestsOf(l)) <= 1

\* A Lead whose dispatch failed was submitted again and answered as a
\* duplicate, with still one Call row and one provider request to its name.
FailedDispatchNotRetried ==
  /\ last.kind = "ghl" /\ last.response.message = "Duplicate ignored"
  /\ \E l \in LeadIds :
       /\ l = last.response.leadId /\ leads[l].callStatus = "FAILED"
       /\ Cardinality(CallsOf(l)) = 1 /\ Cardinality(ProviderRequestsOf(l)) = 1

\* C32: with a secret configured, a request whose secret header does not
\* match is answered 403 whatever the tables hold, and changes no Lead or
\* Call row and sends no provider request; with no secret configured no
\* request is answered 403.
SecretMismatchRejectedFirst ==
  [][\A r \in Requests :
       Arrives(r) =>
         /\ (env.secrets /\ ~Arrived(r).headerMatches)
              => /\ req'[r].pc = "done"
                 /\ last'.response = Reply(403, "Forbidden")
                 /\ leads' = leads /\ calls' = calls /\ providerRequests' = providerRequests
         /\ ~env.secrets => Arrived(r).response.status # 403]_vars

\* A lead webhook with the wrong secret was answered 403 while the Lead of
\* an earlier, admitted submission is stored, and that Lead is as it was.
ForbiddenWithLeadStored ==
  /\ env.secrets /\ last.kind = "ghl" /\ ~last.headerMatches
  /\ last.response.status = 403
  /\ Len(leads) = 1 /\ leads[1].callStatus = "FAILED" /\ Len(leads[1].trail) = 3

\* C33: an edit of a tenant's status or routing changes no Lead row, no
\* Call row and sends nothing to a provider; and a callback for a Call of a
\* tenant that is INACTIVE or has no active routing is matched, classified
\* and written to the Call and the Lead as for any other tenant.
OpenCallsOf(providerCallId) ==
  { c \in CallIds : /\ providerCallId # NoId /\ calls[c].providerCallId = providerCallId
                    /\ calls[c].status \notin {"COMPLETED", "FAILED"} }

DeactivationCancelsNothing ==
  [][/\ clients' # clients
          => (leads' = leads /\ calls' = calls /\ providerRequests' = providerRequests)
     /\ \A r \in Requests :
          /\ (/\ Arrives(r) /\ IsCallback(Arrived(r))
              /\ Arrived(r).admitted /\ ~Arrived(r).threw
              /\ OpenCallsOf(Arrived(r).providerCallId) # {})
               => /\ req'[r].pc = "updateCall"
                  /\ req'[r].callId \in OpenCallsOf(req'[r].providerCallId)
                  /\ req'[r].callStatus = StatusOfSignal(req'[r].signal)
          /\ (req[r].pc = "updateCall" /\ req'[r].pc # "updateCall")
               => calls'[req[r].callId].status = StatusOfSignal(req[r].signal)
          /\ (req[r].pc = "updateLead" /\ req'[r].pc # "updateLead")
               => /\ leads'[req[r].leadId].callStatus = MirrorOf(StatusOfSignal(req[r].signal))
                  /\ last'.response = Reply(200, "Webhook processed")]_vars

\* The tenant was set INACTIVE and its routing deactivated before a
\* callback for its dispatched call arrived; the callback completed the
\* Call and the Lead.
CallbackAfterDeactivation ==
  /\ clients["t1"].status = "INACTIVE" /\ ActiveRoutingConfigs("t1") = <<>>
  /\ IsCallback(last) /\ ~last.tenantOpen /\ last.response.message = "Webhook processed"
  /\ calls[last.callId].clientId = "t1"
  /\ calls[last.callId].status = "COMPLETED"
  /\ leads[last.leadId].callStatus = "COMPLETED"

\* C34: createCall with a provider tag other than BLAND and VAPI returns a
\* failure, adds no Call row and sends no provider request; the lead
\* webhook then sets the Lead FAILED and answers 200 with the error, the
\* Lead still having no Call row and no provider request.
OtherProvider(rec) == rec.routing.provider \notin {NULL, "BLAND", "VAPI"}

UnknownProviderFailsWithoutCall ==
  [][\A r \in Requests :
       /\ (req[r].pc = "createCall" /\ req'[r].pc # "createCall" /\ OtherProvider(req[r]))
            => /\ calls' = calls /\ providerRequests' = providerRequests
               /\ req'[r].pc = "ghlFailed"
               /\ ~req'[r].result.success /\ req'[r].result.error # NULL
       /\ (req[r].pc = "ghlFailed" /\ req'[r].pc # "ghlFailed" /\ OtherProvider(req[r]))
            => /\ leads'[req[r].leadId].callStatus = "FAILED"
               /\ last'.response.status = 200
               /\ last'.response.error = req[r].result.error
               /\ CallsOf(req[r].leadId) = {} /\ calls' = calls
               /\ ProviderRequestsOf(req[r].leadId) = {}
               /\ providerRequests' = providerRequests]_vars

\* A lead webhook of a tenant routed to another provider was answered 200
\* with the error; its Lead is FAILED and nothing was dispatched.
UnknownProviderAnswered ==
  /\ last.kind = "ghl" /\ OtherProvider(last)
  /\ last.response.status = 200 /\ last.response.error = "Unknown provider"
  /\ leads[last.response.leadId].callStatus = "FAILED"
  /\ calls = <<>> /\ providerRequests = <<>>

\* C35: every step of a callback leaves every Lead and Call row as it is,
\* except that its Call update changes the one Call carrying the
\* callback's provider call id, and not that Call's tenant, lead reference,
\* provider or provider call id, and its Lead update changes the one Lead
\* that Call references.
CallbackChangesOnlyItsRows ==
  [][\A r \in Requests :
       /\ (Arrives(r) /\ IsCallback(Arrived(r))) => (leads' = leads /\ calls' = calls)
       /\ (req[r].pc = "updateCall" /\ req'[r].pc # "updateCall") =>
            LET c == req[r].callId
            IN  /\ leads' = leads
                /\ calls[c].providerCallId = req[r].providerCallId
                /\ DOMAIN calls' = DOMAIN calls
                /\ \A x \in CallIds \ {c} : calls'[x] = calls[x]
                /\ calls'[c].clientId = calls[c].clientId
                /\ calls'[c].leadId = calls[c].leadId
                /\ calls'[c].provider = calls[c].provider
                /\ calls'[c].providerCallId = calls[c].providerCallId
       /\ (req[r].pc = "updateLead" /\ req'[r].pc # "updateLead") =>
            LET l == calls[req[r].callId].leadId
            IN  /\ calls' = calls
                /\ DOMAIN leads' = DOMAIN leads
                /\ \A x \in LeadIds \ {l} : leads'[x] = leads[x]]_vars

\* A callback completed one of two Calls of a tenant; the other Call is
\* still IN_PROGRESS and its Lead still CALLING.
CallbackBesideAnotherCall ==
  /\ IsCallback(last) /\ last.response.message = "Webhook processed"
  /\ Len(calls) = 2 /\ Len(leads) = 2
  /\ calls[last.callId].status = "COMPLETED"
  /\ leads[calls[last.callId].leadId].callStatus = "COMPLETED"
  /\ \E c \in CallIds \ {last.callId} :
       /\ calls[c].clientId = calls[last.callId].clientId
       /\ calls[c].status = "IN_PROGRESS" /\ leads[calls[c].leadId].callStatus = "CALLING"

\* C36: whenever no request is in flight, the Lead of every Call agrees
\* with it: COMPLETED with COMPLETED, FAILED with FAILED, and CALLING with
\* IN_PROGRESS.
LeadAgreesWithCallAtRest ==
  (\A r \in Requests : ~InFlight(r)) =>
    \A c \in CallIds :
      /\ calls[c].status = "COMPLETED" => leads[calls[c].leadId].callStatus = "COMPLETED"
      /\ calls[c].status = "FAILED" => leads[calls[c].leadId].callStatus = "FAILED"
      /\ calls[c].status = "IN_PROGRESS" => leads[calls[c].leadId].callStatus = "CALLING"

\* C37: once a completed or failed callback has been delivered for a call
\* id the provider had issued to an accepted dispatch, the Call that
\* dispatch created and its Lead eventually are COMPLETED or FAILED, also
\* when the callback came before the id was stored on the Call row.
TerminalCallbackDelivered(id) ==
  \/ \E r \in Requests :
       /\ IsCallback(req[r]) /\ InFlight(r) /\ req[r].issued
       /\ req[r].providerCallId = id /\ req[r].signal \in {"completed", "failed"}
  \/ /\ IsCallback(last) /\ last.admitted /\ ~last.threw /\ last.issued
     /\ last.providerCallId = id /\ last.signal \in {"completed", "failed"}

AcceptedFor(id) ==
  \E i \in 1..Len(providerRequests) : providerRequests[i].answeredId = id

CallAndLeadEnded(id) ==
  \E c \in CallIds :
    /\ \E i \in 1..Len(providerRequests) :
         providerRequests[i].answeredId = id /\ providerRequests[i].leadId = calls[c].leadId
    /\ calls[c].status \in {"COMPLETED", "FAILED"}
    /\ leads[calls[c].leadId].callStatus \in {"COMPLETED", "FAILED"}

TerminalCallbackEventuallyApplied ==
  \A id \in 1..(MaxRequests + 1) :
    (AcceptedFor(id) /\ TerminalCallbackDelivered(id)) ~> CallAndLeadEnded(id)

\* C38: when a lead webhook that created a Lead answers 200, that Lead is
\* not NEW and not QUEUED, and no later step makes a Lead that is past
\* QUEUED become NEW or QUEUED.
Waiting == {"NEW", "QUEUED"}

AnsweredLeadIsPastQueued ==
  [][/\ \A r \in Requests :
          (/\ req[r].kind = "ghl" /\ InFlight(r) /\ req'[r].pc = "done"
           /\ req[r].created # NoId /\ last'.response.status = 200)
            => leads'[req[r].created].callStatus \notin Waiting
     /\ \A l \in LeadIds :
          leads[l].callStatus \notin Waiting => leads'[l].callStatus \notin Waiting]_vars

\* A lead webhook whose dispatch threw in the adapter answered 200; the
\* Lead it created went from QUEUED to FAILED.
ThrownDispatchLeftLeadFailed ==
  /\ last.kind = "ghl" /\ last.created # NoId /\ last.response.status = 200
  /\ last.response.error = "fetch failed"
  /\ leads[last.created].trail = <<"NEW", "QUEUED", "FAILED">>

\* C39: a callback received on the Bland endpoint changes only Calls whose
\* provider is BLAND and one received on the Vapi endpoint only Calls whose
\* provider is VAPI, whatever call id its body carries.
EndpointProvider(kind) == IF kind = "bland" THEN "BLAND" ELSE "VAPI"

CallbackChangesOwnProviderOnly ==
  [][\A r \in Requests :
       (IsCallback(req[r]) /\ req[r].pc = "updateCall" /\ req'[r].pc # "updateCall")
         => \A c \in CallIds :
              calls'[c] # calls[c] => calls[c].provider = EndpointProvider(req[r].kind)]_vars

\* C40: a submission is immediate exactly when its timestamp is absent or
\* unparseable, or lies at most the immediate window and less than one
\* further second in the past (its age in whole seconds is between 0 and
\* the window); every other one, a timestamp in the future included, is not
\* immediate and, the tenant being in its quiet hours, is skipped.
FreshByAge ==
  \/ verdict.timestamp.kind \in {"none", "text"}
  \/ /\ verdict.timestamp.ms <= now
     /\ now - verdict.timestamp.ms < (300 + 1) * 1000

FreshnessFollowsAge ==
  verdict.asked =>
    /\ verdict.result <=> FreshByAge
    /\ verdict.skipped <=> ~FreshByAge

\* A timestamp one millisecond in the future was judged not immediate and
\* the submission skipped.
FutureTimestampNotFresh ==
  /\ verdict.asked /\ verdict.timestamp.kind = "iso"
  /\ verdict.timestamp.ms = now + 1
  /\ ~verdict.result /\ verdict.skipped

====
